---- MODULE Spec2Model ----
(***************************************************************************)
(* Model of the workspace-manager extension: the settings engine           *)
(* (SettingsMerger, PatternMatcher, ForwardSyncService,                     *)
(* ReverseSyncService, WorkspaceConfigService) and the coordinator         *)
(* (FileWatcherService with the commands of extension.ts).                  *)
(*                                                                         *)
(* JSON values are tagged records, one field name per JSON type, so that   *)
(* two values of different types are different records:                    *)
(*   null [z |-> 0], boolean [b |-> TRUE], number [n |-> 1],               *)
(*   string [s |-> "x"], array [a |-> <<...>>], object [m |-> pairs]       *)
(* where pairs is the sequence of the object's own <<key, value>> entries  *)
(* in the order JavaScript enumerates them.  A Settings object             *)
(* (Record<string, unknown>) is such a sequence itself.                    *)
(***************************************************************************)
EXTENDS Integers, Sequences, FiniteSets, TLC

VARIABLES
    doc,              \* the persisted .code-workspace file: [settings, folders]
    artifact,         \* folder path -> content of <folder>/.vscode/settings.json
    lastOp,           \* what the last engine operation did, and after what
    edits,            \* number of external edits made so far
    isForwardSyncing, \* FileWatcherService.isForwardSyncing
    isReverseSyncing, \* FileWatcherService.isReverseSyncing
    debounceTimeout,  \* FileWatcherService.debounceTimeout: the pending timer
    isWatching,       \* FileWatcherService.isWatching
    events,           \* notifications not yet delivered
    tasks,            \* async calls in flight, each with its position
    handled,          \* the last file-change notification handled, and how
    call,             \* the last call of a pure function: its arguments and result
    faults,           \* the file operations that fail: a set of <<operation, path>>
    activation        \* "none" before activate(), "active", "off" after deactivate()

vars == <<doc, artifact, lastOp, edits, isForwardSyncing, isReverseSyncing,
          debounceTimeout, isWatching, events, tasks, handled, call, faults,
          activation>>

engineVars == <<doc, artifact, lastOp, edits>>
coordVars == <<isForwardSyncing, isReverseSyncing, debounceTimeout, isWatching,
               events, handled, activation>>

-----------------------------------------------------------------------------
(* JSON values *)

Null == [z |-> 0]
Bool(x) == [b |-> x]
Num(x) == [n |-> x]
Str(x) == [s |-> x]
Arr(x) == [a |-> x]
Obj(pairs) == [m |-> pairs]

Undefined == [u |-> 0]

\* a function, as found along the prototype chain of every object
Fn(name) == [f |-> name]

\* Object.prototype read as a value: an object without enumerable own keys
ObjectPrototype == [m |-> <<>>, of |-> "Object"]

EmptySettings == <<>>

\* typeof value === 'object' && value !== null && !Array.isArray(value)
isPlainObject(value) == "m" \in DOMAIN value

isArray(value) == "a" \in DOMAIN value

isString(value) == "s" \in DOMAIN value

\* value === undefined || value === null, the operands `??` replaces
nullish(value) == value = Undefined \/ value = Null

\* JavaScript truthiness of a value (used by `||`, `!isEnabled`,
\* `!currentSettings`)
Truthy(value) ==
    IF "z" \in DOMAIN value \/ "u" \in DOMAIN value THEN FALSE
    ELSE IF "b" \in DOMAIN value THEN value.b
    ELSE IF "n" \in DOMAIN value THEN value.n # 0
    ELSE IF "s" \in DOMAIN value THEN value.s # ""
    ELSE TRUE

\* the JavaScript typeof of a value
typeof(value) ==
    IF "u" \in DOMAIN value THEN "undefined"
    ELSE IF "b" \in DOMAIN value THEN "boolean"
    ELSE IF "n" \in DOMAIN value THEN "number"
    ELSE IF "s" \in DOMAIN value THEN "string"
    ELSE IF "f" \in DOMAIN value THEN "function"
    ELSE "object"

isPrimitive(value) == ~isPlainObject(value) /\ ~isArray(value)

-----------------------------------------------------------------------------
(* Keys.  A key or pattern is a string; Tokens gives its characters,       *)
(* grouped into runs that the model never needs to split.                  *)

WORKSPACE_MANAGER_PREFIX == "workspaceManager"

autoSyncEnabled == "workspaceManager.autoSync.enabled"
syncEnabled == "workspaceManager.sync.enabled"
syncRootSettingsExclude == "workspaceManager.sync.rootSettings.exclude"
syncSubFolderSettingsDefaults == "workspaceManager.sync.subFolderSettings.defaults"
reverseSyncEnabled == "workspaceManager.reverseSync.enabled"
reverseSyncFolderSettingsExclude == "workspaceManager.reverseSync.folderSettings.exclude"

Tokens(str) ==
    CASE str = "workspaceManager" -> <<"workspaceManager">>
      [] str = autoSyncEnabled -> <<"workspaceManager", ".", "autoSync", ".", "enabled">>
      [] str = syncEnabled -> <<"workspaceManager", ".", "sync", ".", "enabled">>
      [] str = syncRootSettingsExclude ->
            <<"workspaceManager", ".", "sync", ".", "rootSettings", ".", "exclude">>
      [] str = syncSubFolderSettingsDefaults ->
            <<"workspaceManager", ".", "sync", ".", "subFolderSettings", ".", "defaults">>
      [] str = reverseSyncEnabled -> <<"workspaceManager", ".", "reverseSync", ".", "enabled">>
      [] str = reverseSyncFolderSettingsExclude ->
            <<"workspaceManager", ".", "reverseSync", ".", "folderSettings", ".", "exclude">>
      [] str = "workspaceManager.custom" -> <<"workspaceManager", ".", "custom">>
      [] str = "workspaceManagerial" -> <<"workspaceManager", "ial">>
      [] str = "editor.fontSize" -> <<"editor", ".", "fontSize">>
      [] str = "editor.tabSize" -> <<"editor", ".", "tabSize">>
      [] str = "terminal.fontSize" -> <<"terminal", ".", "fontSize">>
      [] str = "files.exclude" -> <<"files", ".", "exclude">>
      [] str = "node_modules" -> <<"node_modules">>
      [] str = ".git" -> <<".", "git">>
      [] str = "editor.*" -> <<"editor", ".", "*">>
      [] str = "editor*" -> <<"editor", "*">>
      [] str = "*" -> <<"*">>
      [] str = "!editor.fontSize" -> <<"!", "editor", ".", "fontSize">>
      [] str = "!editor.*" -> <<"!", "editor", ".", "*">>
      [] str = "!" -> <<"!">>
      [] str = "a" -> <<"a">>
      [] str = "b" -> <<"b">>
      [] str = "ab" -> <<"a", "b">>
      [] str = "0" -> <<"0">>
      [] str = "1" -> <<"1">>
      [] str = "toString" -> <<"toString">>
      [] str = "__proto__" -> <<"__proto__">>

\* String.prototype.startsWith
startsWith(str, prefix) ==
    LET t == Tokens(str)
        p == Tokens(prefix)
    IN  Len(t) >= Len(p) /\ SubSeq(t, 1, Len(p)) = p

\* String.prototype.slice(1) on a pattern beginning with "!"
slice1(str) ==
    CASE str = "!editor.fontSize" -> "editor.fontSize"
      [] str = "!editor.*" -> "editor.*"

\* the characters of a string, as its iterator and Object.entries give them
Chars(str) ==
    CASE str = "ab" -> <<"a", "b">>
      [] str = "a" -> <<"a">>
      [] str = "editor.*" -> <<"e", "d", "i", "t", "o", "r", ".", "*">>

\* an integer-like key ("0", "1", ...): JavaScript enumerates such keys
\* first, in ascending order, whenever they were created
IsIndex(key) == key \in {"0", "1"}

IndexOf(key) == IF key = "0" THEN 0 ELSE 1

\* the key of position i of an array or string
IndexKey(i) == IF i = 1 THEN "0" ELSE "1"

-----------------------------------------------------------------------------
(* F(v) and F(v, w), the arguments being evaluated once, before F is       *)
(* applied to their values: a JavaScript call passes values.               *)

Call(F(_), v) == CHOOSE r \in {F(x) : x \in {v}} : TRUE

Call2(F(_, _), v, w) == CHOOSE r \in {F(x, y) : x \in {v}, y \in {w}} : TRUE

-----------------------------------------------------------------------------
(* Objects as sequences of own entries *)

Keys(pairs) == {pairs[i][1] : i \in DOMAIN pairs}

\* Object.hasOwn(object, key)
Has(pairs, key) == \E i \in DOMAIN pairs : pairs[i][1] = key

\* the value of an own key
Own(pairs, key) == pairs[CHOOSE i \in DOMAIN pairs : pairs[i][1] = key][2]

\* an own key created or overwritten: an existing key keeps its place, a
\* new integer-like key goes among the integer-like keys, any other new
\* key goes last
Put(pairs, key, value) ==
    IF Has(pairs, key)
    THEN [i \in DOMAIN pairs |-> IF pairs[i][1] = key THEN <<key, value>> ELSE pairs[i]]
    ELSE LET n == Cardinality({i \in DOMAIN pairs :
                                  IF IsIndex(key)
                                  THEN IsIndex(pairs[i][1])
                                       /\ IndexOf(pairs[i][1]) < IndexOf(key)
                                  ELSE TRUE})
         IN  SubSeq(pairs, 1, n) \o << <<key, value>> >> \o SubSeq(pairs, n + 1, Len(pairs))

\* delete object[key]
Del(pairs, key) == SelectSeq(pairs, LAMBDA e : e[1] # key)

\* Object.entries(value) of a value that is neither null nor undefined:
\* the own entries of an object, the indexed elements of an array, the
\* indexed characters of a string, nothing for a number or a boolean
entries(value) ==
    IF isPlainObject(value) THEN value.m
    ELSE IF isArray(value) THEN [i \in DOMAIN value.a |-> <<IndexKey(i), value.a[i]>>]
    ELSE IF isString(value)
         THEN [i \in DOMAIN Chars(value.s) |-> <<IndexKey(i), Str(Chars(value.s)[i])>>]
    ELSE <<>>

\* the names every object inherits from Object.prototype
ObjectPrototypeKeys ==
    {"constructor", "hasOwnProperty", "isPrototypeOf", "propertyIsEnumerable",
     "toLocaleString", "toString", "valueOf", "__proto__", "__defineGetter__",
     "__defineSetter__", "__lookupGetter__", "__lookupSetter__"}

(* An object under construction: its own entries and its prototype, which  *)
(* an assignment to the name __proto__ replaces.                           *)

Object(pairs) == [own |-> pairs, proto |-> ObjectPrototype]

\* object[key]: the own value, or the one found along the prototype chain
read(object, key) ==
    IF Has(object.own, key) THEN Own(object.own, key)
    ELSE IF object.proto = Null THEN Undefined
    ELSE IF key = "__proto__" THEN object.proto
    ELSE IF Has(entries(object.proto), key) THEN Own(entries(object.proto), key)
    ELSE IF key \in ObjectPrototypeKeys THEN Fn(key)
    ELSE Undefined

\* object[key] = value: an own entry, unless the name is __proto__ and the
\* object has no own entry of that name: then an object or null becomes
\* the prototype and any other value is dropped
assign(object, key, value) ==
    IF key = "__proto__" /\ ~Has(object.own, key)
    THEN IF isPlainObject(value) \/ isArray(value) \/ value = Null
         THEN [object EXCEPT !.proto = value]
         ELSE object
    ELSE [object EXCEPT !.own = Put(object.own, key, value)]

\* delete object[key]
delete(object, key) == [object EXCEPT !.own = Del(object.own, key)]

\* settings[key] of an object with the prototype of an object literal
Get(settings, key) == read(Object(settings), key)

\* key in object: an own key, or one found along the prototype chain
In(key, object) == Has(object, key) \/ key \in ObjectPrototypeKeys

-----------------------------------------------------------------------------
(* picomatch.isMatch(key, pattern), for patterns made of literal text and *)
(* the wildcard "*", which matches any run of characters (a key holds no   *)
(* "/"); a "*" at the start of the pattern does not match a key that       *)
(* begins with a dot, and a key equal to the pattern always matches.       *)

RECURSIVE globMatch(_, _)
globMatch(k, p) ==
    IF p = <<>> THEN k = <<>>
    ELSE IF Head(p) = "*"
         THEN globMatch(k, Tail(p)) \/ (k # <<>> /\ globMatch(Tail(k), p))
         ELSE k # <<>> /\ Head(k) = Head(p) /\ globMatch(Tail(k), Tail(p))

isMatch(key, pattern) ==
    LET k == Tokens(key)
        p == Tokens(pattern)
    IN  \/ key = pattern
        \/ /\ k # <<>>
           /\ ~(Head(p) = "*" /\ Head(k) = ".")
           /\ globMatch(k, p)

(* PatternMatcher: `patterns` is the constructor's argument, a sequence of *)
(* strings.                                                                *)

negationPatterns(patterns) ==
    {slice1(patterns[i]) : i \in {j \in DOMAIN patterns : startsWith(patterns[j], "!")}}

includePatterns(patterns) ==
    {patterns[i] : i \in {j \in DOMAIN patterns : ~startsWith(patterns[j], "!")}}

\* variant: the first pattern of the list that matches decides
isExcluded_firstMatch(patterns, key) ==
    LET hit(i) == IF startsWith(patterns[i], "!") THEN isMatch(key, slice1(patterns[i]))
                  ELSE isMatch(key, patterns[i])
        hits == {i \in DOMAIN patterns : hit(i)}
    IN  IF hits = {} THEN FALSE
        ELSE ~startsWith(patterns[CHOOSE i \in hits : \A j \in hits : i <= j], "!")

isExcluded(patterns, key) ==
    IF \E p \in negationPatterns(patterns) : isMatch(key, p)
    THEN FALSE
    ELSE \E p \in includePatterns(patterns) : isMatch(key, p)

\* a loop over Object.entries(settings), from entry i on, that copies the
\* entries whose key is in `keep`, by `result[key] = value`
RECURSIVE copyLoop(_, _, _, _)
copyLoop(result, settings, i, keep) ==
    IF i > Len(settings) THEN result
    ELSE Call(LAMBDA next : copyLoop(next, settings, i + 1, keep),
              IF settings[i][1] \in keep
              THEN assign(result, settings[i][1], settings[i][2])
              ELSE result)

\* the entries of settings whose key is in `keep`, copied one by one into
\* an empty object
copy(settings, keep) ==
    Call2(LAMBDA s, k : copyLoop(Object(<<>>), s, 1, k).own, settings, keep)

filterSettings(patterns, settings) ==
    copy(settings, {key \in Keys(settings) : ~isExcluded(patterns, key)})

\* new PatternMatcher(value) returns: value is an array (it has .filter)
\* and each element is a string (it has .startsWith); otherwise the
\* constructor throws a TypeError
constructs(value) ==
    isArray(value) /\ \A i \in DOMAIN value.a : isString(value.a[i])

-----------------------------------------------------------------------------
(* SettingsMerger *)

RECURSIVE merge(_, _)
RECURSIVE mergeLoop(_, _, _)
RECURSIVE mergeLoop_concat(_, _, _)

\* variant: an array over an array is appended to it
mergeLoop_concat(result, override, i) ==
    IF i > Len(override) THEN result
    ELSE LET key == override[i][1]
             value == override[i][2]
         IN  Call(LAMBDA next : mergeLoop_concat(next, override, i + 1),
                  IF value = Null THEN delete(result, key)
                  ELSE IF isPlainObject(value) /\ isPlainObject(read(result, key))
                       THEN assign(result, key,
                                   Obj(merge(entries(read(result, key)), value.m)))
                       ELSE IF isArray(value) /\ isArray(read(result, key))
                            THEN assign(result, key, Arr(read(result, key).a \o value.a))
                            ELSE assign(result, key, value))

\* the loop of merge over Object.entries(override), from entry i on
mergeLoop(result, override, i) ==
    IF i > Len(override) THEN result
    ELSE LET key == override[i][1]
             value == override[i][2]
         IN  Call(LAMBDA next : mergeLoop(next, override, i + 1),
                  IF value = Null THEN delete(result, key)
                  ELSE IF isPlainObject(value) /\ isPlainObject(read(result, key))
                       THEN assign(result, key,
                                   Obj(merge(entries(read(result, key)), value.m)))
                       ELSE assign(result, key, value))

\* merge(base, override): the own entries of the result
merge(base, override) ==
    Call2(LAMBDA b, o : mergeLoop(Object(b), o, 1).own, base, override)

RECURSIVE deepEqual(_, _)
deepEqual(a, b) ==
    IF isPrimitive(a) /\ isPrimitive(b) /\ a = b THEN TRUE
    ELSE IF typeof(a) # typeof(b) THEN FALSE
    ELSE IF a = Null \/ b = Null THEN FALSE
    ELSE IF isArray(a) /\ isArray(b)
         THEN /\ Len(a.a) = Len(b.a)
              /\ \A i \in DOMAIN a.a : deepEqual(a.a[i], b.a[i])
    ELSE IF isPlainObject(a) /\ isPlainObject(b)
         THEN /\ Len(a.m) = Len(b.m)
              /\ \A k \in Keys(a.m) : deepEqual(Get(a.m, k), Get(b.m, k))
    ELSE FALSE

\* the first loop of diff, over Object.entries(current) from entry i on
RECURSIVE diffChanged(_, _, _, _)
diffChanged(result, expected, current, i) ==
    IF i > Len(current) THEN result
    ELSE Call(LAMBDA next : diffChanged(next, expected, current, i + 1),
              IF ~deepEqual(current[i][2], Get(expected, current[i][1]))
              THEN assign(result, current[i][1], current[i][2])
              ELSE result)

\* the second loop of diff, over Object.keys(expected) from key i on
RECURSIVE diffRemoved(_, _, _, _)
diffRemoved(result, expected, current, i) ==
    IF i > Len(expected) THEN result
    ELSE Call(LAMBDA next : diffRemoved(next, expected, current, i + 1),
              IF ~In(expected[i][1], current)
              THEN assign(result, expected[i][1], Null)
              ELSE result)

\* diff(expected, current): the own entries of the result
diff(expected, current) ==
    Call2(LAMBDA e, c : diffRemoved(diffChanged(Object(<<>>), e, c, 1), e, c, 1).own,
          expected, current)

-----------------------------------------------------------------------------
(* Files.  The content of a settings.json file is its JSON tree, with the  *)
(* keys of every object in the order they are written, together with its   *)
(* layout: "indent4" is the text JSON.stringify(tree, null, 4) + "\n"      *)
(* produces, "other" any other text that parses to the same tree.  Two     *)
(* contents are the same text exactly when they are equal.                 *)

NoFile == [absent |-> TRUE]

\* JSON.stringify(settings, null, 4) + '\n'
stringify(settings) == [json |-> settings, layout |-> "indent4"]

\* jsonc.parse(content)
parse(content) == content.json

\* the .code-workspace file
workspacePath == "/ws/project.code-workspace"

\* the file operation on the path is one that fails
Fails(operation, path) == <<operation, path>> \in faults

\* fs.realpath of path.join(workspaceDir, folderPath), for a folder that
\* exists on disk
resolveFolderPath(folderPath) ==
    CASE folderPath = "." -> "/ws"
      [] folderPath = "backend" -> "/ws/backend"
      [] folderPath = "frontend" -> "/ws/frontend"

\* fs.realpath does not reject: the folder exists on disk
resolves(folderPath) == ~Fails("realpath", resolveFolderPath(folderPath))

getResolvedWorkspaceDir == "/ws"

\* variant: no folder is the root
isWorkspaceRoot_never(folderPath) == FALSE

\* false for a path that does not resolve (the catch of isWorkspaceRoot)
isWorkspaceRoot(folderPath) ==
    resolves(folderPath) /\ resolveFolderPath(folderPath) = getResolvedWorkspaceDir

Dirs == {"/ws", "/ws/backend", "/ws/frontend"}

-----------------------------------------------------------------------------
(* WorkspaceConfigService.  The parsed .code-workspace file is a function  *)
(* from its top-level field names: `folders` an array of entries           *)
(* [path, settings], `settings` and any other field a JSON value.          *)

\* fs.readFile(workspacePath) does not reject: the file is there
loads(file) == file # NoFile

\* load(), for a file that is there: the parsed file reduced to its folders
\* and settings, `data.folders || []` and `data.settings || {}`.  A truthy
\* `settings` is returned as it is, whatever its type
load(file) ==
    [folders |-> IF "folders" \in DOMAIN file THEN file.folders ELSE <<>>,
     settings |-> IF "settings" \in DOMAIN file /\ Truthy(file.settings)
                  THEN file.settings ELSE Obj(EmptySettings)]

\* workspace.settings as the services read it, `globalSettings[key]` and
\* Object.entries(globalSettings): the own entries of an object, the
\* indexed elements of an array or string, nothing for a number or boolean
workspaceSettings(workspace) == entries(workspace.settings)

\* variant: writes the two fields alone
save_onlyFoldersAndSettings(originalData, workspaceFile) ==
    [folders |-> workspaceFile.folders, settings |-> workspaceFile.settings]

\* save(workspaceFile), from the file it read back to the file it writes:
\* {...originalData, folders, settings}
save(originalData, workspaceFile) ==
    [k \in DOMAIN originalData \cup {"folders", "settings"} |->
        IF k = "folders" THEN workspaceFile.folders
        ELSE IF k = "settings" THEN workspaceFile.settings
        ELSE originalData[k]]

\* getFolders(), for a file that is there: the folders whose path is not
\* ".", in the order of the file
getFolders(file) == SelectSeq(load(file).folders, LAMBDA f : f.path # ".")

\* (value as Settings) ?? {}, as merge and the copying loops enumerate it
\* with Object.entries
asSettings(value) == IF nullish(value) THEN EmptySettings ELSE entries(value)

\* folder.settings ?? {}
settingsOrEmpty(folder) == asSettings(folder.settings)

\* folder.settings?.[key]
folderSetting(folder, key) ==
    IF nullish(folder.settings) THEN Undefined ELSE Get(entries(folder.settings), key)

\* (value as string[]) ?? []
orEmptyArray(value) == IF nullish(value) THEN Arr(<<>>) ELSE value

\* the patterns of new PatternMatcher((value as string[]) ?? []), for a
\* value the constructor accepts
asPatterns(value) ==
    LET list == orEmptyArray(value)
    IN  [i \in DOMAIN list.a |-> list.a[i].s]

-----------------------------------------------------------------------------
(* ForwardSyncService *)

\* variant: strips nothing
removeWorkspaceManagerKeys_none(settings) == settings

removeWorkspaceManagerKeys(settings) ==
    copy(settings, {key \in Keys(settings) : ~startsWith(key, WORKSPACE_MANAGER_PREFIX)})

\* variant: keeps every key
filterByPatterns_none(settings, patterns) == settings

filterByPatterns(settings, patterns) ==
    copy(settings, {key \in Keys(settings) : ~isExcluded(patterns, key)})

\* variant: the subfolder defaults are merged after the filter, so that an
\* excluded key comes back from the defaults
forwardMerged_defaultsLast(globalSettings, folder) ==
    LET subFolderDefaults == asSettings(Get(globalSettings, syncSubFolderSettingsDefaults))
        excludePatterns == asPatterns(Get(globalSettings, syncRootSettingsExclude))
        rootWithoutWM == removeWorkspaceManagerKeys(globalSettings)
        filtered == filterByPatterns(rootWithoutWM, excludePatterns)
        withDefaults == merge(filtered, subFolderDefaults)
    IN  merge(withDefaults, settingsOrEmpty(folder))

\* steps 1 to 4 of the loop body of sync()
forwardMerged(globalSettings, folder) ==
    LET subFolderDefaults == asSettings(Get(globalSettings, syncSubFolderSettingsDefaults))
        excludePatterns == asPatterns(Get(globalSettings, syncRootSettingsExclude))
        rootWithoutWM == removeWorkspaceManagerKeys(globalSettings)
        withDefaults == merge(rootWithoutWM, subFolderDefaults)
        filtered == filterByPatterns(withDefaults, excludePatterns)
    IN  merge(filtered, settingsOrEmpty(folder))

\* variant: without step 5
forwardCleaned_noStrip(globalSettings, folder) == forwardMerged(globalSettings, folder)

\* step 5: what sync() hands to writeSettingsJson
forwardCleaned(globalSettings, folder) ==
    removeWorkspaceManagerKeys(forwardMerged(globalSettings, folder))

\* variant: the existing content is never found to be the same
sameContent_never(files, folderPath, settings) == FALSE

\* writeSettingsJson, the test `existingContent === newContent` for a
\* folder that resolves: the file is read and holds the very text
sameContent(files, folderPath, settings) ==
    files[resolveFolderPath(folderPath)] = stringify(settings)

\* writeSettingsJson with nothing in between: [changed, files, threw],
\* files being the artifacts afterwards and threw telling that it
\* rejected: resolveFolderPath did, or fs.mkdir or fs.writeFile
writeSettingsJson(files, folderPath, settings) ==
    LET dir == resolveFolderPath(folderPath)
        rejected == [changed |-> FALSE, files |-> files, threw |-> TRUE]
    IN  IF ~resolves(folderPath) THEN rejected
        ELSE IF sameContent(files, folderPath, settings)
             THEN [changed |-> FALSE, files |-> files, threw |-> FALSE]
             ELSE IF Fails("write", dir) THEN rejected
                  ELSE [changed |-> TRUE,
                        files |-> [files EXCEPT ![dir] = stringify(settings)],
                        threw |-> FALSE]

\* one iteration of the loop of sync() for workspace.folders[i] with
\* nothing in between, threw telling that the catch block ran
syncFolder(workspace, i, files) ==
    LET folder == workspace.folders[i]
    IN  IF isWorkspaceRoot(folder.path)
        THEN [changed |-> FALSE, files |-> files, threw |-> FALSE]
        ELSE writeSettingsJson(files, folder.path,
                               forwardCleaned(workspaceSettings(workspace), folder))

\* variant: a folder that fails ends the loop
afterFolder_abort(workspace, i, threw) ==
    IF threw THEN Len(workspace.folders) + 1 ELSE i + 1

\* the folder the loop of sync() turns to after folder i
afterFolder(workspace, i, threw) == i + 1

\* the loop of sync() from folder i on, with nothing in between:
\* [files, written], written being the indices of the folders whose
\* artifact was written; a folder that failed is logged and the loop
\* goes on
RECURSIVE syncLoop(_, _, _, _)
syncLoop(workspace, i, files, written) ==
    IF i > Len(workspace.folders) THEN [files |-> files, written |-> written]
    ELSE LET r == syncFolder(workspace, i, files)
         IN  syncLoop(workspace, afterFolder(workspace, i, r.threw), r.files,
                      IF r.changed THEN written \cup {i} ELSE written)

\* variant: runs whatever sync.enabled holds
syncEnters_always(workspace) == TRUE

\* sync() goes on after its test of sync.enabled
syncEnters(workspace) == Get(workspaceSettings(workspace), syncEnabled) # Bool(FALSE)

\* sync() from its load() to its loop: "rejected" when load() rejects
\* or new PatternMatcher throws, "skipped" when sync.enabled is false,
\* "loop" otherwise
syncStart(file) ==
    IF ~loads(file) THEN "rejected"
    ELSE IF ~syncEnters(load(file)) THEN "skipped"
    ELSE IF ~constructs(orEmptyArray(Get(workspaceSettings(load(file)), syncRootSettingsExclude)))
         THEN "rejected"
    ELSE "loop"

\* sync() with nothing in between: [count, files, written, threw], threw
\* telling that the call rejected instead of returning a count
sync(file, files) ==
    IF syncStart(file) # "loop"
    THEN [count |-> 0, files |-> files, written |-> {},
          threw |-> syncStart(file) = "rejected"]
    ELSE LET r == syncLoop(load(file), 1, files, {})
         IN  [count |-> Cardinality(r.written), files |-> r.files,
              written |-> r.written, threw |-> FALSE]

-----------------------------------------------------------------------------
(* ReverseSyncService *)

\* variant: keeps every key of the diff
calculateFilteredDiff_unfiltered(expected, current, patterns) == diff(expected, current)

\* variant: the root's value first
reverseEnabled_rootFirst(workspace, folder) ==
    LET folderReverseSyncEnabled == folderSetting(folder, reverseSyncEnabled)
        rootReverseSyncEnabled == Get(workspaceSettings(workspace), reverseSyncEnabled)
    IN  IF ~nullish(rootReverseSyncEnabled) THEN rootReverseSyncEnabled
        ELSE IF ~nullish(folderReverseSyncEnabled) THEN folderReverseSyncEnabled
        ELSE Bool(TRUE)

\* variant: the value in the subfolder defaults comes before the root's
reverseEnabled_defaults(workspace, folder) ==
    LET folderReverseSyncEnabled == folderSetting(folder, reverseSyncEnabled)
        defaultsReverseSyncEnabled ==
            Get(asSettings(Get(workspaceSettings(workspace), syncSubFolderSettingsDefaults)),
                reverseSyncEnabled)
        rootReverseSyncEnabled == Get(workspaceSettings(workspace), reverseSyncEnabled)
    IN  IF ~nullish(folderReverseSyncEnabled) THEN folderReverseSyncEnabled
        ELSE IF ~nullish(defaultsReverseSyncEnabled) THEN defaultsReverseSyncEnabled
        ELSE IF ~nullish(rootReverseSyncEnabled) THEN rootReverseSyncEnabled
        ELSE Bool(TRUE)

\* reverseSync.enabled: folder ?? root ?? true
reverseEnabled(workspace, folder) ==
    LET folderReverseSyncEnabled == folderSetting(folder, reverseSyncEnabled)
        rootReverseSyncEnabled == Get(workspaceSettings(workspace), reverseSyncEnabled)
    IN  IF ~nullish(folderReverseSyncEnabled) THEN folderReverseSyncEnabled
        ELSE IF ~nullish(rootReverseSyncEnabled) THEN rootReverseSyncEnabled
        ELSE Bool(TRUE)

\* a value the spread syntax [...value] accepts: an array or a string
iterable(value) == isArray(value) \/ isString(value)

\* the elements [...value] contributes: those of an array, the characters
\* of a string
spread(value) ==
    IF isArray(value) THEN value.a
    ELSE [i \in DOMAIN Chars(value.s) |-> Str(Chars(value.s)[i])]

\* variant: a folder list replaces the root list
reverseExclude_override(workspace, folder) ==
    LET rootExclude == orEmptyArray(Get(workspaceSettings(workspace), reverseSyncFolderSettingsExclude))
        folderExclude == orEmptyArray(folderSetting(folder, reverseSyncFolderSettingsExclude))
    IN  IF folderExclude # Arr(<<>>) THEN folderExclude ELSE rootExclude

\* [...rootExclude, ...folderExclude], for two values that can be spread
reverseExclude(workspace, folder) ==
    LET rootExclude == orEmptyArray(Get(workspaceSettings(workspace), reverseSyncFolderSettingsExclude))
        folderExclude == orEmptyArray(folderSetting(folder, reverseSyncFolderSettingsExclude))
    IN  Arr(spread(rootExclude) \o spread(folderExclude))

\* lines 64 to 66 of syncFolderToWorkspace throw: a list cannot be spread,
\* or the constructor of PatternMatcher rejects an element
reverseMatcherThrows(workspace, folder) ==
    \/ ~iterable(orEmptyArray(Get(workspaceSettings(workspace), reverseSyncFolderSettingsExclude)))
    \/ ~iterable(orEmptyArray(folderSetting(folder, reverseSyncFolderSettingsExclude)))
    \/ ~constructs(reverseExclude(workspace, folder))

\* the patterns of the matcher of syncFolderToWorkspace
reversePatterns(workspace, folder) == asPatterns(reverseExclude(workspace, folder))

\* readSettingsJson returns null: the folder does not resolve or its
\* settings.json cannot be read
unreadable(files, folderPath) ==
    ~resolves(folderPath) \/ files[resolveFolderPath(folderPath)] = NoFile

\* calculateExpectedSettings throws: the constructor of PatternMatcher
\* rejects sync.rootSettings.exclude
expectedThrows(globalSettings) ==
    ~constructs(orEmptyArray(Get(globalSettings, syncRootSettingsExclude)))

\* variant: leaves out the merge of the subfolder defaults
calculateExpectedSettings_noDefaults(globalSettings, folder) ==
    merge(removeWorkspaceManagerKeys(globalSettings),
          removeWorkspaceManagerKeys(settingsOrEmpty(folder)))

calculateExpectedSettings(globalSettings, folder) ==
    LET rootWithoutWM ==
            copy(globalSettings,
                 {key \in Keys(globalSettings) : ~startsWith(key, WORKSPACE_MANAGER_PREFIX)})
        subFolderDefaults == asSettings(Get(globalSettings, syncSubFolderSettingsDefaults))
        withDefaults == merge(rootWithoutWM, subFolderDefaults)
        excludePatterns == asPatterns(Get(globalSettings, syncRootSettingsExclude))
        filtered ==
            Call(LAMBDA s : copy(s, {key \in Keys(s) : ~isExcluded(excludePatterns, key)}),
                 withDefaults)
        folderSettings == IF Truthy(folder.settings) THEN entries(folder.settings)
                          ELSE EmptySettings
        filteredFolderSettings ==
            copy(folderSettings,
                 {key \in Keys(folderSettings) : ~startsWith(key, WORKSPACE_MANAGER_PREFIX)})
    IN  merge(filtered, filteredFolderSettings)

\* variant: filters by the reverse-exclude patterns alone
calculateFilteredDiff_patternsOnly(expected, current, patterns) ==
    Call(LAMBDA d : copy(d, {key \in Keys(d) : ~isExcluded(patterns, key)}),
         diff(expected, current))

calculateFilteredDiff(expected, current, patterns) ==
    Call(LAMBDA d : copy(d, {key \in Keys(d) : /\ ~startsWith(key, WORKSPACE_MANAGER_PREFIX)
                                               /\ ~isExcluded(patterns, key)}),
         diff(expected, current))

\* workspace.folders.findIndex((f) => f.path === folderPath), 0 standing for -1
findIndex(folders, folderPath) ==
    IF \E i \in DOMAIN folders : folders[i].path = folderPath
    THEN CHOOSE i \in DOMAIN folders :
            /\ folders[i].path = folderPath
            /\ \A j \in DOMAIN folders : folders[j].path = folderPath => i <= j
    ELSE 0

\* workspace.folders[folderIndex] of a file that loads and holds the folder
FolderAt(file, folderPath) ==
    load(file).folders[findIndex(load(file).folders, folderPath)]

\* { ...target, ...source } from entry i of the source on: every own entry
\* becomes an own entry of the result, whatever its name
RECURSIVE spreadLoop(_, _, _)
spreadLoop(target, source, i) ==
    IF i > Len(source) THEN target
    ELSE Call(LAMBDA next : spreadLoop(next, source, i + 1),
              Put(target, source[i][1], source[i][2]))

\* WorkspaceConfigService.updateFolderSettings(folderPath, newSettings)
\* with nothing in between: [file, threw], the file afterwards and threw
\* telling that the call rejected: load() did, no folder has the path, or
\* the writeFile of save() did, which leaves the file as it was.
\* The folder's settings become { ...folder.settings, ...newSettings }: a
\* null is a value like any other and no key is deleted.  No function of
\* the extension calls this method, and so no action does.
WorkspaceConfigService_updateFolderSettings(file, folderPath, newSettings) ==
    IF \/ ~loads(file)
       \/ findIndex(load(file).folders, folderPath) = 0
       \/ Fails("write", workspacePath)
    THEN [file |-> file, threw |-> TRUE]
    ELSE LET workspace == load(file)
             folderIndex == findIndex(workspace.folders, folderPath)
             folder == workspace.folders[folderIndex]
         IN  [file |-> save(file,
                            [workspace EXCEPT
                                !.folders[folderIndex] =
                                    [folder EXCEPT !.settings =
                                        Obj(spreadLoop(settingsOrEmpty(folder),
                                                       asSettings(newSettings), 1))]]),
              threw |-> FALSE]

\* the loop of updateFolderSettings over Object.entries(diff), from entry
\* i on
RECURSIVE applyLoop(_, _, _)
applyLoop(newFolderSettings, d, i) ==
    IF i > Len(d) THEN newFolderSettings
    ELSE Call(LAMBDA next : applyLoop(next, d, i + 1),
              IF d[i][2] = Null THEN delete(newFolderSettings, d[i][1])
              ELSE assign(newFolderSettings, d[i][1], d[i][2]))

\* { ...currentFolderSettings } with the diff applied to it
applyDiff(currentFolderSettings, d) ==
    Call2(LAMBDA s, e : applyLoop(Object(s), e, 1).own, currentFolderSettings, d)

\* updateFolderSettings from its load() to its call of save(): the
\* workspace it hands to save().  `workspace` is what its own load()
\* returned, in which the folder is found, `folder` the entry found by
\* syncFolderToWorkspace in the load before.
updatedWorkspace(workspace, folderPath, folder, d) ==
    LET folderIndex == findIndex(workspace.folders, folderPath)
        newFolderSettings == applyDiff(settingsOrEmpty(folder), d)
    IN  [workspace EXCEPT
            !.folders[folderIndex] = [folder EXCEPT !.settings = Obj(newFolderSettings)]]

\* updateFolderSettings with nothing in between: the file afterwards.
\* `file` is the file as it is now.
updateFolderSettings(file, folderPath, folder, d) ==
    save(file, updatedWorkspace(load(file), folderPath, folder, d))

\* an outcome of a part of syncFolderToWorkspace: `why` tells why the call
\* ends there ("" when it goes on), threw that it ends in the catch block
Outcome(why, threw, expected, patch) ==
    [why |-> why, threw |-> threw, expected |-> expected, patch |-> patch]

\* syncFolderToWorkspace from its load() to the call of readSettingsJson.
\* `file` is the file load() reads.
reverseStart(file, folderPath) ==
    IF ~loads(file) THEN Outcome("load failed", TRUE, EmptySettings, EmptySettings)
    ELSE LET workspace == load(file)
             idx == findIndex(workspace.folders, folderPath)
         IN  IF idx = 0 THEN Outcome("folder not found", FALSE, EmptySettings, EmptySettings)
             ELSE IF isWorkspaceRoot(folderPath)
             THEN Outcome("root folder", FALSE, EmptySettings, EmptySettings)
             ELSE IF ~Truthy(reverseEnabled(workspace, workspace.folders[idx]))
             THEN Outcome("disabled", FALSE, EmptySettings, EmptySettings)
             ELSE IF reverseMatcherThrows(workspace, workspace.folders[idx])
             THEN Outcome("matcher failed", TRUE, EmptySettings, EmptySettings)
             ELSE Outcome("", FALSE, EmptySettings, EmptySettings)

\* syncFolderToWorkspace from the call of readSettingsJson to the call of
\* updateFolderSettings.  `workspace` and `folder` are what the start
\* found, `files` the artifacts readSettingsJson reads.
reversePatch(workspace, folder, files, folderPath) ==
    IF unreadable(files, folderPath)
    THEN Outcome("no settings.json", FALSE, EmptySettings, EmptySettings)
    ELSE IF expectedThrows(workspaceSettings(workspace))
    THEN Outcome("matcher failed", TRUE, EmptySettings, EmptySettings)
    ELSE LET currentSettings == parse(files[resolveFolderPath(folderPath)])
         IN  Call(LAMBDA expectedSettings :
                     Call(LAMBDA d : Outcome(IF d = <<>> THEN "no changes" ELSE "", FALSE,
                                             expectedSettings, d),
                          calculateFilteredDiff(expectedSettings, currentSettings,
                                                reversePatterns(workspace, folder))),
                  calculateExpectedSettings(workspaceSettings(workspace), folder))

\* the try block of syncFolderToWorkspace(folderPath) with nothing in
\* between: [result, file, why, expected, patch, threw], threw telling
\* that the block was left by an exception
syncFolderToWorkspaceTry(file, files, folderPath) ==
    LET start == reverseStart(file, folderPath)
        ends(o) == [result |-> FALSE, file |-> file, why |-> o.why, expected |-> o.expected,
                    patch |-> o.patch, threw |-> o.threw]
    IN  IF start.why # "" THEN ends(start)
        ELSE
        LET workspace == load(file)
            folder == workspace.folders[findIndex(workspace.folders, folderPath)]
            p == reversePatch(workspace, folder, files, folderPath)
        IN  IF p.why # "" THEN ends(p)
            ELSE IF Fails("write", workspacePath)
            THEN ends([p EXCEPT !.why = "save failed", !.threw = TRUE])
            ELSE [result |-> TRUE,
                  file |-> updateFolderSettings(file, folderPath, folder, p.patch),
                  why |-> "synced", expected |-> p.expected, patch |-> p.patch,
                  threw |-> FALSE]

\* syncFolderToWorkspace(folderPath) with nothing in between: the try
\* block, and the catch block that logs the error and returns false
syncFolderToWorkspace(file, files, folderPath) ==
    LET r == syncFolderToWorkspaceTry(file, files, folderPath)
    IN  IF r.threw THEN [r EXCEPT !.result = FALSE, !.threw = FALSE] ELSE r

-----------------------------------------------------------------------------
(* Calls in flight.  An async call is a task: it advances one step at each *)
(* await on a file operation, and what it has read so far stays with it.   *)
(* A notification or a task carries `by`, the writer of the change it      *)
(* stems from ("user", "forward", "reverse"), and the values the two       *)
(* flags had when the notification arrived.                                *)

MaxUserActions == 1

MaxTasks == 2

NoWorkspace == [folders |-> <<>>, settings |-> Obj(EmptySettings)]

NoEntry == [path |-> "", settings |-> Undefined]

NoArtifacts == [d \in Dirs |-> NoFile]

Task(kind, pc, folder, by, duringFwd, duringRev) ==
    [kind |-> kind, pc |-> pc, folder |-> folder, by |-> by,
     duringFwd |-> duringFwd, duringRev |-> duringRev,
     alone |-> tasks = <<>>,      \* no other call in flight since this one began
     queue |-> <<>>,              \* handleSyncReverse: the folders still to do
     workspace |-> NoWorkspace,   \* what load() returned
     next |-> 0,                  \* sync(): the index of the folder at hand
     written |-> {},              \* sync(): the folders written so far
     before |-> NoArtifacts,      \* sync(): the artifacts when it was called
     entry |-> NoEntry,           \* syncFolderToWorkspace: the folder found
     expected |-> EmptySettings,  \* syncFolderToWorkspace: expectedSettings
     patch |-> EmptySettings,     \* syncFolderToWorkspace: diff
     updated |-> NoWorkspace,     \* the workspace handed to save()
     originalData |-> NoFile]     \* save(): the file as read back

Remove(seq, i) == SubSeq(seq, 1, i - 1) \o SubSeq(seq, i + 1, Len(seq))

\* the calls in flight once another call has begun or the user has
\* written a file
Disturbed(ts) == [i \in DOMAIN ts |-> [ts[i] EXCEPT !.alone = FALSE]]

ForwardKinds == {"sync", "manualForward", "initialize", "triggerForwardSync"}

ReverseKinds == {"syncFolderToWorkspace", "manualReverse", "triggerReverseSync"}

NoOp == [op |-> "none", folder |-> "", count |-> 0, written |-> {}, result |-> FALSE,
         why |-> "", expected |-> EmptySettings, patch |-> EmptySettings,
         afterOp |-> "none", afterFolder |-> "", afterWritten |-> {},
         afterInSync |-> FALSE, afterAlone |-> FALSE, override |-> Undefined,
         threw |-> FALSE, alone |-> FALSE, kind |-> "", changed |-> {}]

\* the record of an operation that follows the one lastOp records
After(op) == [op EXCEPT !.afterOp = lastOp.op, !.afterFolder = lastOp.folder,
                        !.afterWritten = lastOp.written,
                        !.afterAlone = lastOp.alone,
                        !.afterInSync = (lastOp.op = "edit" /\ lastOp.result)]

\* no notification handled yet
NoEvent == [kind |-> "none", by |-> "", duringFwd |-> FALSE, duringRev |-> FALSE,
            outcome |-> ""]

\* no pure function called yet
NoCall == [fn |-> "none", a |-> <<>>, b |-> <<>>, out |-> <<>>]

\* path.relative(workspaceDir, dirname(dirname(uri))) || '.'
getFolderPathFromUri(dir) ==
    CASE dir = "/ws" -> "."
      [] dir = "/ws/backend" -> "backend"
      [] dir = "/ws/frontend" -> "frontend"

\* e.affectsConfiguration('workspaceManager') for a change of this key
affectsConfiguration(key) ==
    /\ Head(Tokens(key)) = WORKSPACE_MANAGER_PREFIX
    /\ Len(Tokens(key)) > 1 => Tokens(key)[2] = "."

\* the settings VS Code reads from the settings section of the file
configuration(file) == IF loads(file) THEN workspaceSettings(load(file)) ELSE EmptySettings

\* the two files give some workspaceManager setting different values
configurationChanged(old, new) ==
    \E key \in Keys(configuration(old)) \cup Keys(configuration(new)) :
        /\ affectsConfiguration(key)
        /\ Get(configuration(old), key) # Get(configuration(new), key)

\* the notifications a write of the .code-workspace file leaves to be
\* delivered: the file watcher reports it while the watchers exist, and
\* VS Code reports a configuration change to the listener activate() has
\* registered
documentWritten(old, new, by) ==
    (IF isWatching /\ loads(new)
     THEN {[kind |-> "doc", dir |-> "/ws", by |-> by]} ELSE {})
    \cup (IF activation = "active" /\ configurationChanged(old, new)
          THEN {[kind |-> "config", dir |-> "/ws", by |-> by]} ELSE {})

\* the notification a write of a settings.json leaves to be delivered
artifactWritten(dir, by) ==
    IF isWatching THEN {[kind |-> "artifact", dir |-> dir, by |-> by]} ELSE {}

\* variant: a trigger function returns without its finally block
afterSync_noFinally(i) == Remove(tasks, i)


\* where a call goes once its engine call has returned: to the finally
\* block of a trigger function, to the next folder of handleSyncReverse,
\* or to its end
afterSync(i) ==
    IF tasks[i].kind \in {"triggerForwardSync", "triggerReverseSync"}
    THEN [tasks EXCEPT ![i].pc = "finally", ![i].before = NoArtifacts]
    ELSE IF tasks[i].queue # <<>>
    THEN [tasks EXCEPT ![i].pc = "sync", ![i].folder = Head(tasks[i].queue),
                       ![i].queue = Tail(tasks[i].queue),
                       ![i].workspace = NoWorkspace, ![i].entry = NoEntry,
                       ![i].before = NoArtifacts,
                       ![i].expected = EmptySettings, ![i].patch = EmptySettings,
                       ![i].updated = NoWorkspace, ![i].originalData = NoFile]
    ELSE Remove(tasks, i)

\* the engine call of task i returns or rejects: lastOp records it, and the
\* caller goes on
Returns(i, op) ==
    /\ lastOp' = After([op EXCEPT !.alone = tasks[i].alone, !.kind = tasks[i].kind])
    /\ tasks' = afterSync(i)

-----------------------------------------------------------------------------
(* forwardSync.sync() step by step *)

\* what lastOp records of the sync() of task t, which leaves the artifacts
\* `files`: changed are the artifacts that differ from those it found
ForwardOp(t, threw, files) ==
    [NoOp EXCEPT !.op = "forward", !.count = Cardinality(t.written),
                 !.written = {t.workspace.folders[j].path : j \in t.written},
                 !.threw = threw,
                 !.changed = {d \in Dirs : files[d] # t.before[d]}]

\* sync() of task i turns to folder `next` of its loop, or returns its
\* count after the last one; t is the task as it is by now
ForwardGoesOn(i, t, next, files) ==
    IF next > Len(t.workspace.folders)
    THEN Returns(i, ForwardOp(t, FALSE, files))
    ELSE /\ tasks' = [tasks EXCEPT ![i] = [t EXCEPT !.pc = "folder", !.next = next]]
         /\ UNCHANGED lastOp

\* sync() from its load() to its loop
ForwardLoads(i) ==
    /\ i \in DOMAIN tasks
    /\ tasks[i].pc = "sync"
    /\ tasks[i].kind \in ForwardKinds
    /\ IF syncStart(doc) = "loop"
       THEN ForwardGoesOn(i, [tasks[i] EXCEPT !.workspace = load(doc), !.before = artifact],
                          1, artifact)
       ELSE Returns(i, ForwardOp([tasks[i] EXCEPT !.before = artifact],
                                 syncStart(doc) = "rejected", artifact))
    /\ UNCHANGED <<doc, artifact, edits, call, faults, coordVars>>

\* one folder of the loop, up to the test of writeSettingsJson: the root
\* folder is skipped, a folder that does not resolve is logged, a folder
\* whose file holds the new content already is left alone
ForwardCompares(i) ==
    /\ i \in DOMAIN tasks
    /\ tasks[i].pc = "folder"
    /\ LET t == tasks[i]
           folder == t.workspace.folders[t.next]
       IN  IF isWorkspaceRoot(folder.path)
           THEN ForwardGoesOn(i, t, t.next + 1, artifact)
           ELSE IF ~resolves(folder.path)
           THEN ForwardGoesOn(i, t, afterFolder(t.workspace, t.next, TRUE), artifact)
           ELSE IF sameContent(artifact, folder.path,
                               forwardCleaned(workspaceSettings(t.workspace), folder))
           THEN ForwardGoesOn(i, t, afterFolder(t.workspace, t.next, FALSE), artifact)
           ELSE /\ tasks' = [tasks EXCEPT ![i].pc = "write"]
                /\ UNCHANGED lastOp
    /\ UNCHANGED <<doc, artifact, edits, call, faults, coordVars>>

\* the rest of writeSettingsJson: fs.mkdir and fs.writeFile; the watcher
\* reports the write
ForwardWrites(i) ==
    /\ i \in DOMAIN tasks
    /\ tasks[i].pc = "write"
    /\ LET t == tasks[i]
           folder == t.workspace.folders[t.next]
           dir == resolveFolderPath(folder.path)
       IN  IF Fails("write", dir)
           THEN /\ ForwardGoesOn(i, t, afterFolder(t.workspace, t.next, TRUE), artifact)
                /\ UNCHANGED <<artifact, events>>
           ELSE /\ artifact' = [artifact EXCEPT ![dir] =
                                   stringify(forwardCleaned(workspaceSettings(t.workspace), folder))]
                /\ events' = events \cup artifactWritten(dir, "forward")
                /\ ForwardGoesOn(i, [t EXCEPT !.written = t.written \cup {t.next}],
                                 afterFolder(t.workspace, t.next, FALSE), artifact')
    /\ UNCHANGED <<doc, edits, call, faults, isForwardSyncing, isReverseSyncing,
                   debounceTimeout, isWatching, handled, activation>>

-----------------------------------------------------------------------------
(* reverseSync.syncFolderToWorkspace(folderPath) step by step *)

\* folder.settings of the entry with this path, undefined without one
OverrideOf(file, folderPath) ==
    IF ~loads(file) \/ findIndex(load(file).folders, folderPath) = 0 THEN Undefined
    ELSE load(file).folders[findIndex(load(file).folders, folderPath)].settings

\* what lastOp records of the syncFolderToWorkspace of task t, whose try
\* block ended with `result`, or by an exception when `threw`: the catch
\* block logs the error and returns false, so that the call does not reject
ReverseOp(t, result, why, threw) ==
    [NoOp EXCEPT !.op = "reverse", !.folder = t.folder,
                 !.result = IF threw THEN FALSE ELSE result, !.why = why,
                 !.expected = t.expected, !.patch = t.patch,
                 !.override = t.entry.settings, !.threw = FALSE]

\* from load() to the call of readSettingsJson
ReverseLoads(i) ==
    /\ i \in DOMAIN tasks
    /\ tasks[i].pc = "sync"
    /\ tasks[i].kind \in ReverseKinds
    /\ \E start \in {reverseStart(doc, tasks[i].folder)} :
       LET t == tasks[i]
           found == [t EXCEPT !.entry =
                        IF loads(doc) /\ findIndex(load(doc).folders, t.folder) # 0
                        THEN FolderAt(doc, t.folder) ELSE NoEntry]
       IN  IF start.why # ""
           THEN Returns(i, ReverseOp(found, FALSE, start.why, start.threw))
           ELSE /\ tasks' = [tasks EXCEPT
                                ![i].pc = "read",
                                ![i].workspace = load(doc),
                                ![i].entry = FolderAt(doc, t.folder)]
                /\ UNCHANGED lastOp
    /\ UNCHANGED <<doc, artifact, edits, call, faults, coordVars>>

\* readSettingsJson, calculateExpectedSettings and calculateFilteredDiff
ReverseReads(i) ==
    /\ i \in DOMAIN tasks
    /\ tasks[i].pc = "read"
    /\ \E p \in {reversePatch(tasks[i].workspace, tasks[i].entry, artifact,
                                tasks[i].folder)} :
       LET t == tasks[i]
           u == [t EXCEPT !.expected = p.expected, !.patch = p.patch]
       IN  IF p.why # ""
           THEN Returns(i, ReverseOp(u, FALSE, p.why, p.threw))
           ELSE /\ tasks' = [tasks EXCEPT ![i] = [u EXCEPT !.pc = "update"]]
                /\ UNCHANGED lastOp
    /\ UNCHANGED <<doc, artifact, edits, call, faults, coordVars>>

\* updateFolderSettings from its load() to its call of save()
ReverseUpdates(i) ==
    /\ i \in DOMAIN tasks
    /\ tasks[i].pc = "update"
    /\ LET t == tasks[i]
       IN  IF ~loads(doc)
           THEN Returns(i, ReverseOp(t, FALSE, "load failed", TRUE))
           ELSE IF findIndex(load(doc).folders, t.folder) = 0
           THEN Returns(i, ReverseOp(t, FALSE, "folder not found", TRUE))
           ELSE /\ tasks' = [tasks EXCEPT
                                ![i].pc = "saveRead",
                                ![i].updated = updatedWorkspace(load(doc), t.folder,
                                                                t.entry, t.patch)]
                /\ UNCHANGED lastOp
    /\ UNCHANGED <<doc, artifact, edits, call, faults, coordVars>>

\* save() reads the file back
ReverseSaveReads(i) ==
    /\ i \in DOMAIN tasks
    /\ tasks[i].pc = "saveRead"
    /\ tasks[i].kind \in ReverseKinds
    /\ IF ~loads(doc)
       THEN Returns(i, ReverseOp(tasks[i], FALSE, "save failed", TRUE))
       ELSE /\ tasks' = [tasks EXCEPT ![i].pc = "saveWrite", ![i].originalData = doc]
            /\ UNCHANGED lastOp
    /\ UNCHANGED <<doc, artifact, edits, call, faults, coordVars>>

\* variant: a reverse pass that has written the document rewrites the
\* folder's settings.json as well
reverseArtifact_rewritten(files, t) ==
    [files EXCEPT ![resolveFolderPath(t.folder)] = stringify(t.expected)]

\* the artifacts once a reverse pass has written the document
reverseArtifact(files, t) == files

\* save() writes the file, and syncFolderToWorkspace returns true
ReverseSaveWrites(i) ==
    /\ i \in DOMAIN tasks
    /\ tasks[i].pc = "saveWrite"
    /\ tasks[i].kind \in ReverseKinds
    /\ LET t == tasks[i]
       IN  IF Fails("write", workspacePath)
           THEN /\ Returns(i, ReverseOp(t, FALSE, "save failed", TRUE))
                /\ UNCHANGED <<doc, artifact, events>>
           ELSE /\ doc' = save(t.originalData, t.updated)
                /\ artifact' = reverseArtifact(artifact, t)
                /\ events' = events \cup
                                documentWritten(doc, save(t.originalData, t.updated), "reverse")
                /\ Returns(i, ReverseOp(t, TRUE, "synced", FALSE))
    /\ UNCHANGED <<edits, call, faults, isForwardSyncing, isReverseSyncing,
                   debounceTimeout, isWatching, handled, activation>>

\* a step of a call of sync() in flight
ForwardStep ==
    \E i \in 1..MaxTasks :
        \/ ForwardLoads(i)
        \/ ForwardCompares(i)
        \/ ForwardWrites(i)

\* a step of a call of syncFolderToWorkspace in flight
ReverseStep ==
    \E i \in 1..MaxTasks :
        \/ ReverseLoads(i)
        \/ ReverseReads(i)
        \/ ReverseUpdates(i)
        \/ ReverseSaveReads(i)
        \/ ReverseSaveWrites(i)

\* a step of an engine call in flight
EngineStep == ForwardStep \/ ReverseStep

-----------------------------------------------------------------------------
(* The documents the engine is checked on.  A document is the parsed       *)
(* .code-workspace file; its folders have unique paths.                    *)

MaxEdits == 1

FontSizes == {Num(12), Num(14)}

FilesExcludeFull == Obj(<< <<".git", Bool(TRUE)>>, <<"node_modules", Bool(TRUE)>> >>)

RootPlainChoices ==
    { EmptySettings,
      << <<"editor.fontSize", Num(12)>> >>,
      << <<"editor.fontSize", Num(12)>>, <<"files.exclude", FilesExcludeFull>> >>,
      << <<"files.exclude", Obj(<< <<".git", Bool(TRUE)>>,
                                   <<"workspaceManager.custom", Num(1)>> >>)>> >>,
      << <<"terminal.fontSize", Null>>, <<"workspaceManagerial", Num(1)>> >> }

DefaultsChoices ==
    { Undefined,
      Obj(<< <<"editor.tabSize", Num(2)>>, <<"editor.fontSize", Num(14)>> >>),
      Obj(<< <<reverseSyncEnabled, Bool(FALSE)>>, <<"workspaceManager.custom", Num(1)>> >>),
      Obj(<< <<"files.exclude", Obj(<< <<"node_modules", Null>> >>)>> >>) }

ExcludeChoices ==
    { Undefined,
      Arr(<<Str("editor.*")>>),
      Arr(<<Str("*"), Str("!editor.fontSize")>>) }

FolderSettingsChoices ==
    { Undefined,
      Obj(<< <<"editor.fontSize", Num(14)>> >>),
      Obj(<< <<"editor.fontSize", Null>> >>),
      Obj(<< <<"files.exclude", Obj(<< <<"node_modules", Null>> >>)>> >>),
      Obj(<< <<"files.exclude", Obj(<< <<".git", Bool(FALSE)>> >>)>> >>),
      Obj(<< <<reverseSyncEnabled, Bool(TRUE)>>, <<"workspaceManager.custom", Num(1)>>,
             <<"editor.tabSize", Num(4)>> >>),
      Obj(<< <<reverseSyncEnabled, Bool(FALSE)>> >>),
      Obj(<< <<reverseSyncFolderSettingsExclude, Arr(<<Str("files.exclude")>>)>>,
             <<"terminal.fontSize", Num(12)>> >>),
      Obj(<< <<syncEnabled, Bool(FALSE)>>, <<autoSyncEnabled, Bool(TRUE)>>,
             <<syncRootSettingsExclude, Arr(<<Str("*")>>)>>,
             <<syncSubFolderSettingsDefaults, Obj(<< <<"editor.tabSize", Num(2)>> >>)>>,
             <<"editor.fontSize", Num(14)>> >>) }

\* a settings object from optional entries: the entry is written last when
\* its value is given
withOptional(settings, key, value) ==
    IF value = Undefined THEN settings ELSE Append(settings, <<key, value>>)

\* the root's own switches: none set, forward sync off, reverse sync off,
\* a reverse-exclude list
RootSwitchChoices ==
    { EmptySettings,
      << <<syncEnabled, Bool(FALSE)>> >>,
      << <<reverseSyncEnabled, Bool(FALSE)>> >>,
      << <<reverseSyncFolderSettingsExclude, Arr(<<Str("editor*")>>)>> >> }

RootSettingsChoices ==
    { withOptional(withOptional(plain,
          syncSubFolderSettingsDefaults, defaults),
          syncRootSettingsExclude, exclude) :
        plain \in RootPlainChoices, defaults \in DefaultsChoices,
        exclude \in ExcludeChoices }
    \cup
    { withOptional(switches \o plain, syncSubFolderSettingsDefaults, defaults) :
        plain \in RootPlainChoices,
        defaults \in { Undefined,
                       Obj(<< <<reverseSyncEnabled, Bool(FALSE)>>,
                              <<"workspaceManager.custom", Num(1)>> >>) },
        switches \in RootSwitchChoices \ {EmptySettings} }

Documents ==
    { [settings |-> Obj(root),
       folders |-> << [path |-> ".", settings |-> Obj(<< <<"editor.fontSize", Num(14)>> >>)],
                      [path |-> "backend", settings |-> fs],
                      [path |-> "frontend",
                       settings |-> Obj(<< <<"editor.tabSize", Num(2)>> >>)] >>] :
        root \in RootSettingsChoices, fs \in FolderSettingsChoices }

-----------------------------------------------------------------------------
(* The engine: calls of sync() and of syncFolderToWorkspace(folderPath),   *)
(* begun at any time while fewer than MaxTasks calls are in flight.        *)

CoordIdle ==
    /\ isForwardSyncing = FALSE
    /\ isReverseSyncing = FALSE
    /\ debounceTimeout = Undefined
    /\ isWatching = FALSE
    /\ events = {}
    /\ tasks = <<>>
    /\ handled = NoEvent
    /\ activation = "none"

\* what .vscode/settings.json of the root folder and of backend hold at
\* start: nothing, or a file somebody wrote
InitialArtifacts ==
    { NoFile,
      [json |-> << <<"editor.fontSize", Num(12)>> >>, layout |-> "other"] }

Init ==
    /\ doc \in Documents
    /\ \E c \in InitialArtifacts :
          artifact = [d \in Dirs |-> IF d \in {"/ws", "/ws/backend"} THEN c ELSE NoFile]
    /\ lastOp = NoOp
    /\ edits = 0
    /\ CoordIdle
    /\ call = NoCall
    /\ faults = {}

\* the calls of the engine that may be in flight at a time
MaxCalls == 1

\* a call of forwardSync.sync() begins, fewer than `limit` calls being in
\* flight
SyncCalled(limit) ==
    /\ Len(tasks) < limit
    /\ tasks' = Append(Disturbed(tasks), Task("sync", "sync", "", "user", FALSE, FALSE))
    /\ UNCHANGED <<doc, artifact, lastOp, edits, call, faults, coordVars>>

CallSync == SyncCalled(MaxCalls)

\* a call of reverseSync.syncFolderToWorkspace(folderPath) begins
SyncFolderToWorkspaceCalled(limit, folderPath) ==
    /\ Len(tasks) < limit
    /\ tasks' = Append(Disturbed(tasks),
                       Task("syncFolderToWorkspace", "sync", folderPath, "user", FALSE, FALSE))
    /\ UNCHANGED <<doc, artifact, lastOp, edits, call, faults, coordVars>>

CallSyncFolderToWorkspace(folderPath) == SyncFolderToWorkspaceCalled(MaxCalls, folderPath)

Next ==
    \/ CallSync
    \/ \E f \in {".", "backend", "frontend"} : CallSyncFolderToWorkspace(f)
    \/ EngineStep

\* the engine on every document, with the artifacts as found at start
Spec == Init /\ [][Next]_vars

-----------------------------------------------------------------------------
(* The engine with a user who edits the artifact of folder "backend". *)

\* the folder's artifact is what forward sync would write for it
InSync(folderPath) ==
    /\ loads(doc)
    /\ findIndex(load(doc).folders, folderPath) # 0
    /\ artifact[resolveFolderPath(folderPath)] =
          stringify(forwardCleaned(workspaceSettings(load(doc)), FolderAt(doc, folderPath)))

EditKeys == {"editor.fontSize", "files.exclude", "terminal.fontSize"}

EditValues == FontSizes \cup {FilesExcludeFull, Obj(<< <<".git", Bool(TRUE)>> >>)}

\* the keys of a tree whose value is a mapping
MappingKeys(tree) == {k \in Keys(tree) : isPlainObject(Own(tree, k))}

\* the trees one edit of `tree` can produce: a top-level key removed,
\* changed in place or added as the first or the last key, a key inside a
\* mapping value removed, changed or added
EditsOf(tree) ==
    { Del(tree, x) : x \in Keys(tree) }
    \cup { Put(tree, x, v) : x \in EditKeys, v \in EditValues }
    \cup { << <<x, v>> >> \o tree : x \in EditKeys \ Keys(tree), v \in EditValues }
    \cup { Put(tree, x, Obj(Del(Own(tree, x).m, y))) :
             x \in MappingKeys(tree), y \in {".git", "node_modules"} }
    \cup { Put(tree, x, Obj(Put(Own(tree, x).m, y, Bool(FALSE)))) :
             x \in MappingKeys(tree), y \in {".git", "node_modules"} }

\* the user edits a folder's settings.json (Settings UI or by hand)
UserEditArtifact(folderPath) ==
    LET dir == resolveFolderPath(folderPath)
        old == IF artifact[dir] = NoFile THEN EmptySettings ELSE parse(artifact[dir])
    IN  /\ edits < MaxEdits
        /\ \E tree \in EditsOf(old) \ {old} : \E layout \in {"indent4", "other"} :
              artifact' = [artifact EXCEPT ![dir] = [json |-> tree, layout |-> layout]]
        /\ edits' = edits + 1
        /\ lastOp' = After([NoOp EXCEPT !.op = "edit", !.folder = folderPath,
                                  !.result = InSync(folderPath),
                                  !.alone = (tasks = <<>>)])
        /\ tasks' = Disturbed(tasks)
        /\ events' = events \cup artifactWritten(dir, "user")
        /\ UNCHANGED <<doc, call, faults, isForwardSyncing, isReverseSyncing,
                       debounceTimeout, isWatching, handled, activation>>

EditDocuments ==
    { [settings |-> Obj(withOptional(withOptional(plain,
                        syncSubFolderSettingsDefaults, defaults),
                        syncRootSettingsExclude, exclude)),
       folders |-> << [path |-> "backend", settings |-> fs],
                      [path |-> "frontend", settings |-> Undefined] >>] :
        plain \in { << <<"editor.fontSize", Num(12)>> >>,
                    << <<"editor.fontSize", Num(12)>>,
                       <<"files.exclude", FilesExcludeFull>> >>,
                    << <<"terminal.fontSize", Num(12)>>,
                       <<"editor.fontSize", Num(12)>> >> },
        defaults \in { Undefined, Obj(<< <<"editor.tabSize", Num(2)>> >>) },
        exclude \in { Undefined, Arr(<<Str("editor.*")>>) },
        fs \in { Undefined,
                 Obj(<< <<"editor.fontSize", Num(14)>> >>),
                 Obj(<< <<"files.exclude", Obj(<< <<"node_modules", Null>> >>)>> >>),
                 Obj(<< <<reverseSyncFolderSettingsExclude,
                          Arr(<<Str("files.exclude")>>)>>,
                        <<"terminal.fontSize", Num(12)>> >>) } }

\* what backend/.vscode/settings.json holds at start: nothing, or the
\* settings of the root in another key order
InitialEditArtifacts ==
    { NoFile,
      [json |-> << <<"editor.fontSize", Num(12)>>, <<"terminal.fontSize", Num(12)>> >>,
       layout |-> "indent4"] }

InitEdit ==
    /\ doc \in EditDocuments
    /\ \E c \in InitialEditArtifacts :
          artifact = [d \in Dirs |-> IF d = "/ws/backend" THEN c ELSE NoFile]
    /\ lastOp = NoOp
    /\ edits = 0
    /\ CoordIdle
    /\ call = NoCall
    /\ faults = {}

NextEdit ==
    \/ CallSync
    \/ CallSyncFolderToWorkspace("backend")
    \/ UserEditArtifact("backend")
    \/ EngineStep

SpecEdit == InitEdit /\ [][NextEdit]_vars

-----------------------------------------------------------------------------
(* The engine on documents with reverse-exclude lists at both levels, and  *)
(* an artifact that differs from the expected settings in three keys.      *)

ReverseExcludeDocuments ==
    { [settings |-> Obj(withOptional(<< <<"editor.fontSize", Num(12)>>,
                                        <<"files.exclude", FilesExcludeFull>>,
                                        <<"terminal.fontSize", Num(12)>> >>,
                                     reverseSyncFolderSettingsExclude, rootList)),
       folders |-> << [path |-> "backend",
                       settings |-> Obj(withOptional(<< <<"editor.tabSize", Num(4)>> >>,
                                            reverseSyncFolderSettingsExclude, folderList))],
                      [path |-> "frontend", settings |-> Undefined] >>] :
        rootList \in { Undefined, Arr(<<Str("files.exclude")>>), Arr(<<Str("editor.*")>>),
                       Arr(<<Str("*")>>) },
        folderList \in { Undefined, Arr(<<Str("editor.*")>>), Arr(<<Str("!editor.fontSize")>>),
                         Arr(<<Str("files.exclude")>>) } }

EditedArtifact ==
    [json |-> << <<"editor.fontSize", Num(14)>>,
                 <<"files.exclude", Obj(<< <<".git", Bool(TRUE)>> >>)>>,
                 <<"terminal.fontSize", Num(14)>>,
                 <<"editor.tabSize", Num(4)>> >>,
     layout |-> "other"]

InitExclude ==
    /\ doc \in ReverseExcludeDocuments
    /\ \E c \in {NoFile, EditedArtifact} :
          artifact = [d \in Dirs |-> IF d = "/ws/backend" THEN c ELSE NoFile]
    /\ lastOp = NoOp
    /\ edits = 0
    /\ CoordIdle
    /\ call = NoCall
    /\ faults = {}

SpecExclude == InitExclude /\ [][NextEdit]_vars

-----------------------------------------------------------------------------
(* The coordinator: FileWatcherService and the entry points of the         *)
(* extension (activate, initialize, handleConfigurationChange and the      *)
(* commands).                                                              *)

CoordDocument ==
    [settings |-> Obj(<< <<autoSyncEnabled, Bool(TRUE)>>, <<"editor.fontSize", Num(12)>> >>),
     folders |-> << [path |-> ".", settings |-> Undefined],
                    [path |-> "backend", settings |-> Undefined] >>]

InitCoord ==
    /\ doc = CoordDocument
    /\ artifact = [d \in Dirs |-> NoFile]
    /\ lastOp = NoOp
    /\ edits = 0
    /\ CoordIdle
    /\ call = NoCall
    /\ faults = {}

\* a call begins: it runs to its first await
Begin(task) == tasks' = Append(Disturbed(tasks), task)

\* activate(): the services are created, the commands and the listener of
\* configuration changes are registered, and initialize() is called, which
\* stops at its first await
activate ==
    /\ activation = "none"
    /\ activation' = "active"
    /\ Begin(Task("initialize", "load", "", "user", FALSE, FALSE))
    /\ UNCHANGED <<doc, artifact, lastOp, edits, call, faults, isForwardSyncing,
                   isReverseSyncing, debounceTimeout, isWatching, events, handled>>

\* workspace.settings[autoSyncEnabled] === true
autoSyncOf(workspace) == Get(workspaceSettings(workspace), autoSyncEnabled) = Bool(TRUE)

\* initialize() from its load(): with autoSync on, startWatching() and,
\* after checkAutoSyncWarnings() (which reads and changes nothing), the
\* call of forwardSync.sync(); the catch block when load() rejects
InitializeLoads(i) ==
    /\ i \in DOMAIN tasks
    /\ tasks[i].kind = "initialize"
    /\ tasks[i].pc = "load"
    /\ IF loads(doc) /\ autoSyncOf(load(doc))
       THEN /\ isWatching' = TRUE
            /\ tasks' = [tasks EXCEPT ![i].pc = "sync"]
       ELSE /\ tasks' = Remove(tasks, i)
            /\ UNCHANGED isWatching
    /\ UNCHANGED <<doc, artifact, lastOp, edits, call, faults, isForwardSyncing,
                   isReverseSyncing, debounceTimeout, events, handled, activation>>

\* the command "Sync Settings to Folders", the user having acted fewer
\* than `limit` times
SyncForwardCommand(limit) ==
    /\ activation = "active"
    /\ edits < limit
    /\ Len(tasks) < MaxTasks
    /\ edits' = edits + 1
    /\ Begin(Task("manualForward", "sync", "", "user", FALSE, FALSE))
    /\ UNCHANGED <<doc, artifact, lastOp, call, faults, isForwardSyncing, isReverseSyncing,
                   debounceTimeout, isWatching, events, handled, activation>>

handleSyncForward == SyncForwardCommand(MaxUserActions)

\* the command "Sync Folder Changes to Workspace": it stops at
\* `await workspaceConfig.getFolders()`
SyncReverseCommand(limit) ==
    /\ activation = "active"
    /\ edits < limit
    /\ Len(tasks) < MaxTasks
    /\ edits' = edits + 1
    /\ Begin(Task("manualReverse", "getFolders", "", "user", FALSE, FALSE))
    /\ UNCHANGED <<doc, artifact, lastOp, call, faults, isForwardSyncing, isReverseSyncing,
                   debounceTimeout, isWatching, events, handled, activation>>

handleSyncReverse == SyncReverseCommand(MaxUserActions)

\* getFolders() has returned: the loop over the folders begins with the
\* first of them; when it returned no folder, or when its load()
\* rejected, the command ends
GetFoldersReturns(i) ==
    /\ i \in DOMAIN tasks
    /\ tasks[i].pc = "getFolders"
    /\ LET folders == IF loads(doc) THEN getFolders(doc) ELSE <<>>
           paths == [j \in DOMAIN folders |-> folders[j].path]
       IN  tasks' = IF paths = <<>> THEN Remove(tasks, i)
                    ELSE [tasks EXCEPT ![i].pc = "sync", ![i].folder = Head(paths),
                                       ![i].queue = Tail(paths)]
    /\ UNCHANGED <<doc, artifact, lastOp, edits, call, faults, coordVars>>

\* the file with the settings section changed
withSettings(file, settings) == [file EXCEPT !.settings = Obj(settings)]

\* what the user makes of the .code-workspace file: another
\* editor.fontSize, autoSync.enabled set to false, to 1 or to true or
\* removed, or the file deleted
UserDocuments(file) ==
    LET settings == workspaceSettings(load(file))
    IN  { withSettings(file, Put(settings, "editor.fontSize", v)) :
            v \in FontSizes \ {Get(settings, "editor.fontSize")} }
        \cup { withSettings(file, Put(settings, autoSyncEnabled, v)) :
                  v \in {Bool(FALSE), Num(1), Bool(TRUE)} \ {Get(settings, autoSyncEnabled)} }
        \cup { withSettings(file, Del(settings, x)) :
                  x \in {y \in {autoSyncEnabled} : Has(settings, y)} }
        \cup { NoFile }

\* the user saves the .code-workspace file with other content, one of
\* `files`, or deletes it (a deletion is not reported: the watcher listens
\* to changes and creations), having acted fewer than `limit` times
SaveDocumentAs(limit, files) ==
    /\ edits < limit
    /\ edits' = edits + 1
    /\ loads(doc)
    /\ \E file \in files :
          /\ doc' = file
          /\ events' = events \cup documentWritten(doc, file, "user")
    /\ tasks' = Disturbed(tasks)
    /\ UNCHANGED <<artifact, lastOp, call, faults, isForwardSyncing, isReverseSyncing,
                   debounceTimeout, isWatching, handled, activation>>

UserSavesDocument == SaveDocumentAs(MaxUserActions, UserDocuments(doc))

\* the content the user gives to a settings.json
UserArtifacts ==
    { [json |-> tree, layout |-> "other"] :
        tree \in {EmptySettings, << <<"editor.fontSize", Num(14)>> >>} }

\* the user saves <folder>/.vscode/settings.json with other content, one
\* of `files`, having acted fewer than `limit` times
SaveArtifactAs(limit, folderPath, files) ==
    /\ edits < limit
    /\ edits' = edits + 1
    /\ \E file \in files :
          /\ artifact[resolveFolderPath(folderPath)] # file
          /\ artifact' = [artifact EXCEPT ![resolveFolderPath(folderPath)] = file]
    /\ events' = events \cup artifactWritten(resolveFolderPath(folderPath), "user")
    /\ tasks' = Disturbed(tasks)
    /\ UNCHANGED <<doc, lastOp, call, faults, isForwardSyncing, isReverseSyncing,
                   debounceTimeout, isWatching, handled, activation>>

\* the user saves backend/.vscode/settings.json with other content
UserSavesArtifact == SaveArtifactAs(MaxUserActions, "backend", UserArtifacts)

\* the timer a debounce(fn) call leaves pending
Timer(dir, folder, by, duringFwd, duringRev) ==
    [dir |-> dir, folder |-> folder, by |-> by,
     duringFwd |-> duringFwd, duringRev |-> duringRev]

\* variant: a pending timer is kept and the new call is dropped
debounce_keepsFirst(timer, fn) == IF timer = Undefined THEN fn ELSE timer

\* debounce(fn): the pending timer, if any, is cleared and fn's is set
debounce(timer, fn) == fn

\* variant of the onChange of watchFolderSettings without the test of
\* isForwardSyncing
watchFolderSettings_unguarded(forwardSyncing, reverseSyncing, timer, dir, by) ==
    [timer |-> debounce(timer, Timer("reverse", getFolderPathFromUri(dir), by,
                                     forwardSyncing, reverseSyncing)),
     outcome |-> "armed"]

\* onChange of watchFolderSettings: [timer, outcome], timer being
\* debounceTimeout afterwards
watchFolderSettings(forwardSyncing, reverseSyncing, timer, dir, by) ==
    IF forwardSyncing
    THEN [timer |-> timer, outcome |-> "dropped"]
    ELSE [timer |-> debounce(timer, Timer("reverse", getFolderPathFromUri(dir), by,
                                          forwardSyncing, reverseSyncing)),
          outcome |-> "armed"]

\* a settings.json notification is delivered: the handler runs to its end
ArtifactChanged(e) ==
    /\ isWatching
    /\ e \in events
    /\ e.kind = "artifact"
    /\ LET r == watchFolderSettings(isForwardSyncing, isReverseSyncing,
                                    debounceTimeout, e.dir, e.by)
       IN  /\ debounceTimeout' = r.timer
           /\ handled' = [kind |-> "artifact", by |-> e.by,
                          duringFwd |-> isForwardSyncing,
                          duringRev |-> isReverseSyncing, outcome |-> r.outcome]
    /\ events' = events \ {e}
    /\ UNCHANGED <<doc, artifact, lastOp, call, faults, edits, isForwardSyncing,
                   isReverseSyncing, isWatching, tasks, activation>>

\* a .code-workspace notification is delivered: the handler starts and
\* stops at `await this.diagnosticsService.validate()`
DocumentChanged(e) ==
    /\ isWatching
    /\ e \in events
    /\ e.kind = "doc"
    /\ Len(tasks) < MaxTasks
    /\ Begin(Task("onChange", "validate", "", e.by, isForwardSyncing, isReverseSyncing))
    /\ events' = events \ {e}
    /\ UNCHANGED <<doc, artifact, lastOp, call, faults, edits, isForwardSyncing,
                   isReverseSyncing, debounceTimeout, isWatching, handled, activation>>

\* validate() has returned: the rest of the onChange of watchWorkspaceFile
ValidateReturns(i) ==
    /\ i \in DOMAIN tasks
    /\ tasks[i].kind = "onChange"
    /\ LET t == tasks[i]
       IN  /\ debounceTimeout' =
                 IF isReverseSyncing THEN debounceTimeout
                 ELSE debounce(debounceTimeout,
                               Timer("forward", "", t.by, t.duringFwd, t.duringRev))
           /\ handled' = [kind |-> "doc", by |-> t.by, duringFwd |-> t.duringFwd,
                          duringRev |-> t.duringRev,
                          outcome |-> IF isReverseSyncing THEN "dropped" ELSE "armed"]
    /\ tasks' = Remove(tasks, i)
    /\ UNCHANGED <<doc, artifact, lastOp, call, faults, edits, isForwardSyncing,
                   isReverseSyncing, isWatching, events, activation>>

\* the debounce delay has passed: the callback calls triggerForwardSync()
\* or triggerReverseSync(folderPath), which stops at
\* `await this.isAutoSyncEnabled()`.  An expired timer is no timer.
TimerFires ==
    /\ debounceTimeout # Undefined
    /\ Len(tasks) < MaxTasks
    /\ LET t == debounceTimeout
       IN  Begin(Task(IF t.dir = "forward" THEN "triggerForwardSync"
                                           ELSE "triggerReverseSync",
                      "isAutoSyncEnabled", t.folder, t.by, t.duringFwd, t.duringRev))
    /\ debounceTimeout' = Undefined
    /\ UNCHANGED <<doc, artifact, lastOp, call, faults, edits, isForwardSyncing,
                   isReverseSyncing, isWatching, events, handled, activation>>

\* variant: enabled unless the value is false
isAutoSyncEnabled_unlessFalse(file) ==
    loads(file) /\ Get(workspaceSettings(load(file)), autoSyncEnabled) # Bool(FALSE)

\* isAutoSyncEnabled(): false when load() rejects
isAutoSyncEnabled(file) ==
    loads(file) /\ Get(workspaceSettings(load(file)), autoSyncEnabled) = Bool(TRUE)

\* isAutoSyncEnabled() has returned: return, or set the flag and call the
\* engine
AutoSyncChecked(i) ==
    /\ i \in DOMAIN tasks
    /\ tasks[i].pc = "isAutoSyncEnabled"
    /\ call' = [fn |-> "isAutoSyncEnabled", a |-> tasks[i].kind, b |-> tasks[i].folder,
                out |-> isAutoSyncEnabled(doc)]
    /\ IF ~isAutoSyncEnabled(doc)
       THEN /\ tasks' = Remove(tasks, i)
            /\ UNCHANGED <<isForwardSyncing, isReverseSyncing>>
       ELSE /\ tasks' = [tasks EXCEPT ![i].pc = "sync"]
            /\ IF tasks[i].kind = "triggerForwardSync"
               THEN isForwardSyncing' = TRUE /\ UNCHANGED isReverseSyncing
               ELSE isReverseSyncing' = TRUE /\ UNCHANGED isForwardSyncing
    /\ UNCHANGED <<doc, artifact, lastOp, faults, edits, debounceTimeout, isWatching,
                   events, handled, activation>>

\* the finally block of triggerForwardSync or triggerReverseSync
Finally(i) ==
    /\ i \in DOMAIN tasks
    /\ tasks[i].pc = "finally"
    /\ IF tasks[i].kind = "triggerForwardSync"
       THEN isForwardSyncing' = FALSE /\ UNCHANGED isReverseSyncing
       ELSE isReverseSyncing' = FALSE /\ UNCHANGED isForwardSyncing
    /\ tasks' = Remove(tasks, i)
    /\ UNCHANGED <<doc, artifact, lastOp, call, faults, edits, debounceTimeout, isWatching,
                   events, handled, activation>>

\* the notifications left once stopWatching() has disposed of the file
\* watchers: those of the configuration listener
afterStopWatching(evs) == {e \in evs : e.kind = "config"}

\* VS Code reports a change of a workspaceManager setting: the listener
\* calls handleConfigurationChange(), which stops at its load()
ConfigurationChanged(e) ==
    /\ activation = "active"
    /\ e \in events
    /\ e.kind = "config"
    /\ Len(tasks) < MaxTasks
    /\ Begin(Task("configChange", "load", "", e.by, isForwardSyncing, isReverseSyncing))
    /\ events' = events \ {e}
    /\ UNCHANGED <<doc, artifact, lastOp, call, faults, edits, isForwardSyncing,
                   isReverseSyncing, debounceTimeout, isWatching, handled, activation>>

\* handleConfigurationChange() from its load(): startWatching() when
\* autoSync is on and the watchers do not exist (checkAutoSyncWarnings()
\* follows, which reads and changes nothing), stopWatching() when it is
\* off and they exist; the catch block when load() rejects
ConfigurationLoads(i) ==
    /\ i \in DOMAIN tasks
    /\ tasks[i].kind = "configChange"
    /\ tasks[i].pc = "load"
    /\ IF ~loads(doc) THEN UNCHANGED <<isWatching, debounceTimeout, events>>
       ELSE IF autoSyncOf(load(doc)) /\ ~isWatching
       THEN isWatching' = TRUE /\ UNCHANGED <<debounceTimeout, events>>
       ELSE IF ~autoSyncOf(load(doc)) /\ isWatching
       THEN /\ isWatching' = FALSE
            /\ debounceTimeout' = Undefined
            /\ events' = afterStopWatching(events)
       ELSE UNCHANGED <<isWatching, debounceTimeout, events>>
    /\ tasks' = Remove(tasks, i)
    /\ UNCHANGED <<doc, artifact, lastOp, call, faults, edits, isForwardSyncing,
                   isReverseSyncing, handled, activation>>

\* what the coordinator does on its own: notifications of the watchers
\* are delivered, awaited calls return, the timer expires
CoordinatorStep ==
    \/ \E e \in events : ArtifactChanged(e)
    \/ \E e \in events : DocumentChanged(e)
    \/ TimerFires
    \/ \E i \in 1..MaxTasks :
          \/ ValidateReturns(i)
          \/ AutoSyncChecked(i)
          \/ Finally(i)
    \/ EngineStep

\* a step of initialize() in flight
InitializeStep == \E i \in 1..MaxTasks : InitializeLoads(i)

\* a change of configuration is reported and handled
ConfigurationStep ==
    \/ \E e \in events : ConfigurationChanged(e)
    \/ \E i \in 1..MaxTasks : ConfigurationLoads(i)

\* a step of the command "Sync Folder Settings to Workspace" in flight
ManualReverseStep == \E i \in 1..MaxTasks : GetFoldersReturns(i)

NextCoord ==
    \/ activate
    \/ handleSyncForward
    \/ handleSyncReverse
    \/ UserSavesDocument
    \/ UserSavesArtifact
    \/ InitializeStep
    \/ CoordinatorStep
    \/ ConfigurationStep
    \/ ManualReverseStep

SpecCoord == InitCoord /\ [][NextCoord]_vars

-----------------------------------------------------------------------------
(* The commands "Enable Auto-Sync" and "Disable Auto-Sync" step by step:   *)
(* load(), the assignment of autoSync.enabled, the readFile and the        *)
(* writeFile of save(), and startWatching() or stopWatching().             *)

\* the command of the activated extension (activate() registers it, and
\* deactivation disposes of it) begins and stops at its load(); `limit`
\* bounds the calls in flight
SetAutoSyncCommand(kind, limit) ==
    /\ activation = "active"
    /\ Len(tasks) < limit
    /\ Begin(Task(kind, "load", "", "user", FALSE, FALSE))
    /\ UNCHANGED <<doc, artifact, lastOp, edits, call, faults, coordVars>>

handleEnableAutoSync == SetAutoSyncCommand("enableAutoSync", MaxCalls)

handleDisableAutoSync == SetAutoSyncCommand("disableAutoSync", MaxCalls)

\* the end of a command: lastOp records it, `saved` telling that it wrote
\* the document
CommandEnds(i, saved) ==
    /\ lastOp' = After([NoOp EXCEPT
                           !.op = IF tasks[i].kind = "enableAutoSync" THEN "enable"
                                  ELSE "disable",
                           !.result = saved, !.alone = tasks[i].alone,
                           !.kind = tasks[i].kind])
    /\ tasks' = Remove(tasks, i)

\* workspace.settings[key] = value throws a TypeError, the module being in
\* strict mode: the settings are a string, a number or a boolean
assignThrows(settings) == ~isPlainObject(settings) /\ ~isArray(settings)

\* workspace.settings after workspace.settings[key] = value, as
\* JSON.stringify writes them: an object with the key, an array without
\* it (a named property of an array is not written)
assigned(settings, key, value) ==
    IF isPlainObject(settings) THEN Obj(assign(Object(settings.m), key, value).own)
    ELSE settings

\* load() has returned: workspace.settings[autoSyncEnabled] = true or
\* false, and save(workspace) is called; the catch block when load()
\* rejects or the assignment throws
SetAutoSyncLoads(i) ==
    /\ i \in DOMAIN tasks
    /\ tasks[i].kind \in {"enableAutoSync", "disableAutoSync"}
    /\ tasks[i].pc = "load"
    /\ IF ~loads(doc) \/ assignThrows(load(doc).settings) THEN CommandEnds(i, FALSE)
       ELSE /\ tasks' = [tasks EXCEPT
                            ![i].pc = "saveRead",
                            ![i].updated =
                                [load(doc) EXCEPT !.settings =
                                    assigned(load(doc).settings, autoSyncEnabled,
                                             Bool(tasks[i].kind = "enableAutoSync"))]]
            /\ UNCHANGED lastOp
    /\ UNCHANGED <<doc, artifact, edits, call, faults, coordVars>>

\* save() reads the file back
SetAutoSyncSaveReads(i) ==
    /\ i \in DOMAIN tasks
    /\ tasks[i].kind \in {"enableAutoSync", "disableAutoSync"}
    /\ tasks[i].pc = "saveRead"
    /\ IF ~loads(doc) THEN CommandEnds(i, FALSE)
       ELSE /\ tasks' = [tasks EXCEPT ![i].pc = "saveWrite", ![i].originalData = doc]
            /\ UNCHANGED lastOp
    /\ UNCHANGED <<doc, artifact, edits, call, faults, coordVars>>

\* save() writes the file
SetAutoSyncSaveWrites(i) ==
    /\ i \in DOMAIN tasks
    /\ tasks[i].kind \in {"enableAutoSync", "disableAutoSync"}
    /\ tasks[i].pc = "saveWrite"
    /\ IF Fails("write", workspacePath)
       THEN /\ CommandEnds(i, FALSE)
            /\ UNCHANGED <<doc, events>>
       ELSE /\ doc' = save(tasks[i].originalData, tasks[i].updated)
            /\ events' = events \cup
                            documentWritten(doc, save(tasks[i].originalData, tasks[i].updated),
                                            "user")
            /\ tasks' = Disturbed([tasks EXCEPT ![i].pc = "saved"])
            /\ UNCHANGED lastOp
    /\ UNCHANGED <<artifact, edits, call, faults, isForwardSyncing, isReverseSyncing,
                   debounceTimeout, isWatching, handled, activation>>

\* save() has returned: startWatching() after enabling, stopWatching()
\* after disabling, which disposes of the watchers with what they had to
\* report and clears the pending timer
SetAutoSyncWatches(i) ==
    /\ i \in DOMAIN tasks
    /\ tasks[i].pc = "saved"
    /\ IF tasks[i].kind = "enableAutoSync"
       THEN isWatching' = TRUE /\ UNCHANGED <<debounceTimeout, events>>
       ELSE IF isWatching
       THEN /\ isWatching' = FALSE
            /\ debounceTimeout' = Undefined
            /\ events' = afterStopWatching(events)
       ELSE UNCHANGED <<isWatching, debounceTimeout, events>>
    /\ CommandEnds(i, TRUE)
    /\ UNCHANGED <<doc, artifact, edits, call, faults, isForwardSyncing, isReverseSyncing,
                   handled, activation>>

\* a step of a command in flight
CommandStep ==
    \E i \in 1..MaxTasks :
        \/ SetAutoSyncLoads(i)
        \/ SetAutoSyncSaveReads(i)
        \/ SetAutoSyncSaveWrites(i)
        \/ SetAutoSyncWatches(i)

-----------------------------------------------------------------------------
(* The engine and the auto-sync commands on documents with other top-level *)
(* fields and with values of other types than the settings are meant to    *)
(* hold, with a document that may be missing and file operations that may  *)
(* fail.                                                                   *)

\* subFolderSettings.defaults with keys of the internal namespace in it
DefaultsWithInternalKeys ==
    Obj(<< <<"files.exclude", Obj(<< <<".git", Bool(TRUE)>> >>)>>,
           <<reverseSyncEnabled, Bool(FALSE)>>,
           <<reverseSyncFolderSettingsExclude, Arr(<<Str("editor.*")>>)>> >>)

FaultyBaseSettings ==
    << <<"editor.fontSize", Num(12)>>, <<"terminal.fontSize", Num(12)>> >>

\* root settings as they are meant to be, and root settings that hold a
\* string where a mapping or a list is meant
FaultyRootSettings ==
    { withOptional(withOptional(FaultyBaseSettings, syncEnabled, enabled),
                   syncSubFolderSettingsDefaults, defaults) :
        enabled \in {Undefined, Bool(FALSE)},
        defaults \in {Undefined, DefaultsWithInternalKeys} }
    \cup { Append(FaultyBaseSettings, <<syncSubFolderSettingsDefaults, Str("ab")>>),
           Append(FaultyBaseSettings, <<syncRootSettingsExclude, Str("editor.*")>>),
           Append(FaultyBaseSettings, <<reverseSyncFolderSettingsExclude, Str("ab")>>) }

\* folders whose settings are absent, an override, or hold a mapping
\* where a list is meant
FaultyFolders ==
    { << [path |-> ".", settings |-> Undefined],
         [path |-> "backend", settings |-> fs],
         [path |-> "frontend", settings |-> Undefined] >> :
        fs \in { Undefined,
                 Obj(<< <<"editor.fontSize", Num(14)>> >>),
                 Obj(<< <<reverseSyncFolderSettingsExclude,
                          Obj(<< <<"a", Num(1)>> >>)>> >>) } }

\* the other top-level fields of a .code-workspace file
Extensions == Obj(<< <<"recommendations", Arr(<<Str("a")>>)>> >>)

Launch == Obj(<< <<"version", Str("b")>> >>)

\* the first of FaultyRootSettings and FaultyFolders: what is well formed
WellFormedRootSettings ==
    { s \in FaultyRootSettings :
        \A i \in DOMAIN s :
            s[i][1] \in {syncSubFolderSettingsDefaults, syncRootSettingsExclude,
                         reverseSyncFolderSettingsExclude}
               => ~isString(s[i][2]) }

WellFormedFolders ==
    { fs \in FaultyFolders : ~Has(asSettings(fs[2].settings), reverseSyncFolderSettingsExclude) }

\* root settings that are no mapping at all
NonObjectRootSettings == {Str("ab"), Arr(<<Num(1), Num(2)>>), Bool(TRUE)}

FaultyDocuments ==
    { [folders |-> folders, settings |-> Obj(settings)] :
        folders \in FaultyFolders, settings \in FaultyRootSettings }
    \cup { [folders |-> folders, settings |-> Obj(settings),
            extensions |-> Extensions, launch |-> Launch] :
             folders \in WellFormedFolders, settings \in WellFormedRootSettings }
    \cup { [folders |-> folders, settings |-> settings] :
             folders \in WellFormedFolders, settings \in NonObjectRootSettings }
    \cup { [folders |-> folders] : folders \in WellFormedFolders }
    \cup { [folders |-> folders, extensions |-> Extensions, launch |-> Launch] :
             folders \in WellFormedFolders }
    \cup { NoFile }

\* no operation fails, or one does
FaultChoices ==
    { {} } \cup { {f} : f \in { <<"realpath", "/ws/backend">>, <<"write", "/ws/backend">>,
                                <<"write", "/ws/frontend">>, <<"write", workspacePath>> } }

InitFaulty ==
    /\ doc \in FaultyDocuments
    /\ \E c \in {NoFile, [json |-> << <<"editor.fontSize", Num(14)>> >>, layout |-> "other"]} :
          artifact = [d \in Dirs |-> IF d = "/ws/backend" THEN c ELSE NoFile]
    /\ lastOp = NoOp
    /\ edits = 0
    /\ CoordIdle
    /\ call = NoCall
    /\ faults \in FaultChoices

NextFaulty ==
    \/ CallSync
    \/ \E f \in {".", "backend", "frontend"} : CallSyncFolderToWorkspace(f)
    \/ EngineStep

SpecFaulty == InitFaulty /\ [][NextFaulty]_vars

-----------------------------------------------------------------------------
(* Every writer of the document on the same documents and failures: the    *)
(* extension is activated (no document of the family has auto-sync on, so  *)
(* that initialize() starts nothing), the commands "Enable Auto-Sync" and  *)
(* "Disable Auto-Sync" run, and syncFolderToWorkspace is called.           *)

NextSave ==
    \/ activate
    \/ InitializeStep
    \/ \E f \in {".", "backend", "frontend"} : CallSyncFolderToWorkspace(f)
    \/ handleEnableAutoSync
    \/ handleDisableAutoSync
    \/ ReverseStep
    \/ CommandStep

SpecSave == InitFaulty /\ [][NextSave]_vars

-----------------------------------------------------------------------------
(* The coordinator with a user who saves the document several times.       *)

MaxSaves == 2

\* the user changes editor.fontSize in the settings of the document
FontSizeEdits(file) ==
    { withSettings(file, Put(workspaceSettings(load(file)), "editor.fontSize", v)) :
        v \in FontSizes \ {Get(workspaceSettings(load(file)), "editor.fontSize")} }

UserSavesFontSize == SaveDocumentAs(MaxSaves, FontSizeEdits(doc))

NextBurst ==
    \/ activate
    \/ InitializeStep
    \/ UserSavesFontSize
    \/ CoordinatorStep

SpecBurst == InitCoord /\ [][NextBurst]_vars

-----------------------------------------------------------------------------
(* The coordinator with two folders beside the root, at rest after         *)
(* initialize(): the watchers exist, the initial forward pass has found    *)
(* the artifacts as a pass of an earlier session wrote them, and the       *)
(* notifications are all handled.  The user saves the artifacts.           *)

WatchDocument ==
    [settings |-> Obj(<< <<autoSyncEnabled, Bool(TRUE)>>, <<"editor.fontSize", Num(12)>> >>),
     folders |-> << [path |-> ".", settings |-> Undefined],
                    [path |-> "backend", settings |-> Undefined],
                    [path |-> "frontend", settings |-> Undefined] >>]

InitFolders ==
    /\ doc = WatchDocument
    /\ artifact = [d \in Dirs |->
                      IF d = "/ws" THEN NoFile
                      ELSE stringify(forwardCleaned(workspaceSettings(load(WatchDocument)),
                                                    WatchDocument.folders[2]))]
    /\ lastOp = NoOp
    /\ edits = 0
    /\ isForwardSyncing = FALSE
    /\ isReverseSyncing = FALSE
    /\ debounceTimeout = Undefined
    /\ isWatching = TRUE
    /\ events = {}
    /\ tasks = <<>>
    /\ handled = NoEvent
    /\ activation = "active"
    /\ call = NoCall
    /\ faults = {}

\* what the user saves in a folder: in backend another editor.fontSize, in
\* frontend the settings as they are, laid out in another way
FolderEdits(folderPath) ==
    { [json |-> << <<"editor.fontSize",
                     IF folderPath = "backend" THEN Num(14) ELSE Num(12)>> >>,
       layout |-> "other"] }

NextFolders ==
    \/ \E f \in {"backend", "frontend"} : SaveArtifactAs(MaxSaves, f, FolderEdits(f))
    \/ CoordinatorStep

SpecFolders == InitFolders /\ [][NextFolders]_vars

-----------------------------------------------------------------------------
(* The coordinator with the ways its watchers are stopped: the command     *)
(* "Disable Auto-Sync" and the deactivation of the extension.              *)

\* deactivate(): fileWatcher.dispose(), that is stopWatching(), which
\* returns at once when nothing is watched and otherwise disposes of the
\* watchers with what they had to report and clears the pending timer; the
\* subscriptions of the extension, its commands and its configuration
\* listener, are disposed of
deactivate ==
    /\ activation = "active"
    /\ activation' = "off"
    /\ IF isWatching
       THEN isWatching' = FALSE /\ debounceTimeout' = Undefined
       ELSE UNCHANGED <<isWatching, debounceTimeout>>
    /\ events' = {}
    /\ lastOp' = After([NoOp EXCEPT !.op = "deactivate"])
    /\ UNCHANGED <<doc, artifact, edits, call, faults, isForwardSyncing, isReverseSyncing,
                   tasks, handled>>

\* the command "Disable Auto-Sync" of the activated extension, run while
\* the watchers exist and no other run of it is in flight
DisableAutoSyncCommand ==
    /\ isWatching
    /\ \A i \in DOMAIN tasks : tasks[i].kind # "disableAutoSync"
    /\ SetAutoSyncCommand("disableAutoSync", MaxTasks)

NextStop ==
    \/ activate
    \/ InitializeStep
    \/ UserSavesDocument
    \/ DisableAutoSyncCommand
    \/ deactivate
    \/ CoordinatorStep
    \/ ConfigurationStep
    \/ CommandStep

SpecStop == InitCoord /\ [][NextStop]_vars

-----------------------------------------------------------------------------
(* The coordinator under fair scheduling.  The event loop runs every       *)
(* continuation that is ready, a timer that is set expires unless it is    *)
(* cleared, and the watchers deliver what they have seen: a step of the    *)
(* coordinator or of a command in flight that stays possible is taken.     *)
(* Nothing obliges the user to act.                                        *)

\* a step the event loop takes on its own
EventLoopStep ==
    \/ InitializeStep
    \/ CoordinatorStep
    \/ ConfigurationStep
    \/ ManualReverseStep

SpecCoordFair == SpecCoord /\ WF_vars(EventLoopStep)

-----------------------------------------------------------------------------
(* The engine with calls that overlap.  A call of syncFolderToWorkspace    *)
(* stops at each await: after its load(), after its read of the artifact,  *)
(* after the load() of updateFolderSettings, after the readFile of save(), *)
(* and the writeFile of save() ends it.  Its callers, triggerReverseSync   *)
(* and the loop of handleSyncReverse, do not wait for one another, so that *)
(* up to MaxTasks calls are in flight, for the same or for different       *)
(* folders.                                                                *)

\* the artifacts the user has left in the two folders
InterleaveArtifacts ==
    { [json |-> tree, layout |-> "other"] :
        tree \in { << <<"editor.fontSize", Num(12)>> >>,
                   << <<"editor.fontSize", Num(14)>> >>,
                   << <<"editor.fontSize", Num(12)>>, <<"editor.tabSize", Num(2)>> >> } }

InitInterleave ==
    /\ doc = WatchDocument
    /\ \E b \in InterleaveArtifacts, f \in InterleaveArtifacts :
          artifact = [d \in Dirs |-> IF d = "/ws/backend" THEN b
                                     ELSE IF d = "/ws/frontend" THEN f ELSE NoFile]
    /\ lastOp = NoOp
    /\ edits = 0
    /\ CoordIdle
    /\ call = NoCall
    /\ faults = {}

NextInterleave ==
    \/ \E f \in {"backend", "frontend"} : SyncFolderToWorkspaceCalled(MaxTasks, f)
    \/ ReverseStep

SpecInterleave == InitInterleave /\ [][NextInterleave]_vars

-----------------------------------------------------------------------------
(* SettingsMerger called on its own: merge(a, b) and diff(a, b) for every  *)
(* pair of trees of a bounded family with mappings nested two levels.      *)

InnerValues ==
    {Num(1), Num(2), Null, Obj(<< <<"z", Num(1)>> >>), Obj(<< <<"z", Null>> >>)}

InnerTrees ==
    { withOptional(withOptional(EmptySettings, "x", x), "y", y) :
        x \in InnerValues \cup {Undefined}, y \in {Num(2), Undefined} }

TreeValues ==
    {Num(1), Null, Arr(<<Num(1), Num(2)>>), Arr(<<Num(3)>>)} \cup {Obj(t) : t \in InnerTrees}

Trees ==
    { withOptional(withOptional(EmptySettings, "a", a), "b", b) :
        a \in TreeValues \cup {Undefined}, b \in {Num(1), Null, Undefined} }

\* everything but `call` as at start, and left alone
Idle ==
    /\ doc = CoordDocument
    /\ artifact = [d \in Dirs |-> NoFile]
    /\ lastOp = NoOp
    /\ edits = 0
    /\ CoordIdle
    /\ faults = {}

InitMerger ==
    /\ Idle
    /\ call \in {[NoCall EXCEPT !.a = a, !.b = b] : a \in Trees, b \in Trees}

\* merger.merge(base, override)
CallMerge ==
    /\ call.fn = "none"
    /\ call' = [call EXCEPT !.fn = "merge", !.out = merge(call.a, call.b)]
    /\ UNCHANGED <<engineVars, coordVars, tasks, faults>>

\* merger.diff(expected, current)
CallDiff ==
    /\ call.fn = "none"
    /\ call' = [call EXCEPT !.fn = "diff", !.out = diff(call.a, call.b)]
    /\ UNCHANGED <<engineVars, coordVars, tasks, faults>>

NextMerger == CallMerge \/ CallDiff

SpecMerger == InitMerger /\ [][NextMerger]_vars

-----------------------------------------------------------------------------
(* PatternMatcher called on its own: isExcluded and filterSettings for     *)
(* every pattern list of a bounded family.                                 *)

MaxPatterns == 2

PatternStrings ==
    {"editor.*", "editor*", "*", "files.exclude", "editor.fontSize",
     "!editor.fontSize", "!editor.*"}

PatternLists ==
    UNION {[1..n -> PatternStrings] : n \in 0..MaxPatterns}

MatcherKeyOrder ==
    <<"editor.fontSize", "editor.tabSize", "terminal.fontSize", "files.exclude", ".git">>

MatcherKeys == {MatcherKeyOrder[i] : i \in DOMAIN MatcherKeyOrder}

MatcherSettings ==
    { SelectSeq([i \in DOMAIN MatcherKeyOrder |-> <<MatcherKeyOrder[i], Num(i)>>],
                LAMBDA e : e[1] \in K) : K \in SUBSET MatcherKeys }

InitMatcher ==
    /\ Idle
    /\ call \in {[NoCall EXCEPT !.a = patterns, !.b = settings] :
                     patterns \in PatternLists, settings \in MatcherSettings}

\* new PatternMatcher(patterns).isExcluded(key)
CallIsExcluded ==
    /\ call.fn = "none"
    /\ \E key \in MatcherKeys :
          call' = [call EXCEPT !.fn = "isExcluded",
                               !.out = [key |-> key, excluded |-> isExcluded(call.a, key)]]
    /\ UNCHANGED <<engineVars, coordVars, tasks, faults>>

\* new PatternMatcher(patterns).filterSettings(settings)
CallFilterSettings ==
    /\ call.fn = "none"
    /\ call' = [call EXCEPT !.fn = "filterSettings", !.out = filterSettings(call.a, call.b)]
    /\ UNCHANGED <<engineVars, coordVars, tasks, faults>>

NextMatcher == CallIsExcluded \/ CallFilterSettings

SpecMatcher == InitMatcher /\ [][NextMatcher]_vars

-----------------------------------------------------------------------------
(* diff called on its own, for every pair of the trees above with and      *)
(* without a key that bears a name of Object.prototype.                    *)

DiffTrees ==
    { withOptional(t, "toString", v) : t \in Trees, v \in {Num(1), Undefined} }

InitDiff ==
    /\ Idle
    /\ call \in {[NoCall EXCEPT !.a = a, !.b = b] : a \in DiffTrees, b \in DiffTrees}

SpecDiff == InitDiff /\ [][CallDiff]_vars
-----------------------------------------------------------------------------

\* a pass of a trigger function is in flight from the setting of its flag
\* to its finally block
InFlight(kind) == {i \in DOMAIN tasks : tasks[i].kind = kind /\ tasks[i].pc # "isAutoSyncEnabled"}

\* C1 (as claimed): no reverse pass is invoked because of an artifact write
\* of a forward pass, and no forward pass is invoked because of a document
\* write of a reverse pass.
C1_NoSelfTrigger ==
    /\ \A i \in InFlight("triggerReverseSync") : tasks[i].by # "forward"
    /\ \A i \in InFlight("triggerForwardSync") : tasks[i].by # "reverse"

\* C2 (as claimed): isForwardSyncing and isReverseSyncing are never both
\* true.
C2_MutualExclusion == ~(isForwardSyncing /\ isReverseSyncing)

\* C3 (as claimed): a document notification that arrived while
\* isReverseSyncing was true neither sets the debounce timer nor leads to a
\* forward pass.
C3_DocEventDroppedWhileReversing ==
    /\ (handled.kind = "doc" /\ handled.duringRev) => handled.outcome = "dropped"
    /\ (debounceTimeout # Undefined /\ debounceTimeout.dir = "forward")
          => ~debounceTimeout.duringRev
    /\ \A i \in DOMAIN tasks :
          tasks[i].kind = "triggerForwardSync" => ~tasks[i].duringRev

\* C4: an artifact notification that arrived while isForwardSyncing was true
\* is dropped: it does not set the debounce timer and no reverse pass
\* stems from it.
C4_ArtifactEventDroppedWhileForwarding ==
    /\ (handled.kind = "artifact" /\ handled.duringFwd) => handled.outcome = "dropped"
    /\ (debounceTimeout # Undefined /\ debounceTimeout.dir = "reverse")
          => ~debounceTimeout.duringFwd
    /\ \A i \in DOMAIN tasks :
          tasks[i].kind = "triggerReverseSync" => ~tasks[i].duringFwd

C4_Witness ==
    /\ handled.kind = "artifact"
    /\ handled.duringFwd
    /\ handled.outcome = "dropped"
    /\ isForwardSyncing
    /\ debounceTimeout = Undefined

\* C5 (as claimed): a notification that arrives while the flag of its own
\* direction is set is dropped, and at most one pass per direction is in
\* flight.
C5_AtMostOnePassPerDirection ==
    /\ (handled.kind = "doc" /\ handled.duringFwd) => handled.outcome = "dropped"
    /\ (handled.kind = "artifact" /\ handled.duringRev) => handled.outcome = "dropped"
    /\ Cardinality(InFlight("triggerForwardSync")) <= 1
    /\ Cardinality(InFlight("triggerReverseSync")) <= 1

-----------------------------------------------------------------------------
(* Properties of the engine.  lastOp.alone tells that no other call was in *)
(* flight, and the user wrote no file, from the begin of the operation to  *)
(* its end; lastOp.afterAlone tells the same of the operation before it.   *)

\* no call is in flight
AtRest == tasks = <<>>

JsonOf(folderPath) == parse(artifact[resolveFolderPath(folderPath)])

\* the own value of a key, undefined without one
Lookup(pairs, key) == IF Has(pairs, key) THEN Own(pairs, key) ELSE Undefined

TopLevelClean(tree) == \A k \in Keys(tree) : ~startsWith(k, WORKSPACE_MANAGER_PREFIX)

\* no key of the tree, at any depth, begins with the internal prefix
RECURSIVE DeepClean(_)
DeepClean(tree) ==
    \A i \in DOMAIN tree :
        /\ ~startsWith(tree[i][1], WORKSPACE_MANAGER_PREFIX)
        /\ isPlainObject(tree[i][2]) => DeepClean(tree[i][2].m)

\* C6: a reverse pass for a folder, run right after a forward pass that
\* wrote that folder's artifact, finds an empty filtered patch and returns
\* false without writing the document.
C6_ForwardThenReverseEmpty ==
    (/\ lastOp.op = "reverse"
     /\ lastOp.alone
     /\ lastOp.afterOp = "forward"
     /\ lastOp.afterAlone
     /\ lastOp.folder \in lastOp.afterWritten)
    => /\ lastOp.patch = <<>>
       /\ lastOp.result = FALSE
       /\ lastOp.why \in {"no changes", "disabled"}

C6_Witness ==
    /\ lastOp.op = "reverse"
    /\ lastOp.alone
    /\ lastOp.afterOp = "forward"
    /\ lastOp.afterAlone
    /\ lastOp.folder \in lastOp.afterWritten
    /\ lastOp.why = "no changes"
    /\ lastOp.expected # <<>>
    /\ FolderAt(doc, lastOp.folder).settings # Undefined

\* C7: a second sync() with nothing changed in between writes no artifact
\* and returns 0, and leaves every artifact as it is.
C7_ForwardIdempotent ==
    /\ (lastOp.op = "forward" /\ lastOp.alone
          /\ lastOp.afterOp = "forward" /\ lastOp.afterAlone)
          => (lastOp.count = 0 /\ lastOp.written = {})
    /\ (AtRest /\ lastOp.op = "forward" /\ lastOp.alone)
          => (sync(doc, artifact).files = artifact /\ sync(doc, artifact).count = 0)

C7_Witness ==
    /\ lastOp.op = "forward"
    /\ lastOp.alone
    /\ lastOp.afterOp = "forward"
    /\ lastOp.afterAlone
    /\ Cardinality(lastOp.afterWritten) = 2

\* C8 (as claimed): when the user edits the artifact of a folder that was in
\* sync and the reverse pass for that folder then runs with reverse sync
\* enabled and no reverse-exclude pattern, the settings resolved from the
\* document afterwards are deep-equal to the edited artifact.
C8_UserEditsNotLost ==
    (/\ AtRest
     /\ lastOp.op = "reverse"
     /\ lastOp.alone
     /\ lastOp.afterOp = "edit"
     /\ lastOp.afterAlone
     /\ lastOp.afterInSync
     /\ lastOp.why \in {"synced", "no changes"}
     /\ reversePatterns(load(doc), FolderAt(doc, lastOp.folder)) = <<>>)
    => deepEqual(Obj(forwardCleaned(workspaceSettings(load(doc)), FolderAt(doc, lastOp.folder))),
                 Obj(JsonOf(lastOp.folder)))

\* C9 (as claimed): neither an artifact written by forward sync nor the
\* expected settings computed by reverse sync has a top-level key that
\* begins with the internal prefix.
C9_NoInternalTopLevelKey ==
    /\ (AtRest /\ lastOp.op = "forward") => \A f \in lastOp.written : TopLevelClean(JsonOf(f))
    /\ lastOp.op = "reverse" => TopLevelClean(lastOp.expected)

\* C10 (as claimed): no key at any nesting level of an artifact written by
\* forward sync begins with the internal prefix.
C10_NoInternalKeyAtAnyDepth ==
    (AtRest /\ lastOp.op = "forward") => \A f \in lastOp.written : DeepClean(JsonOf(f))

\* C10 (amended): the top-level keys of an artifact written by forward sync
\* are exactly the merged keys that do not begin with the internal prefix,
\* and each is written with its merged value, nested keys included.
C10_TopLevelOnly ==
    (AtRest /\ lastOp.op = "forward" /\ lastOp.alone) =>
        \A f \in lastOp.written :
            LET merged == forwardMerged(workspaceSettings(load(doc)), FolderAt(doc, f))
            IN  /\ Keys(JsonOf(f)) =
                      {k \in Keys(merged) : ~startsWith(k, WORKSPACE_MANAGER_PREFIX)}
                /\ \A k \in Keys(JsonOf(f)) : Own(JsonOf(f), k) = Own(merged, k)

C10_Witness ==
    /\ AtRest
    /\ lastOp.op = "forward"
    /\ lastOp.alone
    /\ \E f \in lastOp.written :
          /\ ~DeepClean(JsonOf(f))
          /\ \E k \in Keys(forwardMerged(workspaceSettings(load(doc)), FolderAt(doc, f))) :
                startsWith(k, WORKSPACE_MANAGER_PREFIX)

\* the strings of a list of patterns
StringsOf(value) == {value.a[i].s : i \in DOMAIN value.a}

\* the patterns of a list that begin with "!", without it, and the others
NegationsOf(value) == {slice1(p) : p \in {q \in StringsOf(value) : startsWith(q, "!")}}

ExclusionsOf(value) == {q \in StringsOf(value) : ~startsWith(q, "!")}

\* the reverse-exclude list a settings value holds, empty without one
ListOf(settings) ==
    IF nullish(settings) \/ ~Has(entries(settings), reverseSyncFolderSettingsExclude)
    THEN Arr(<<>>)
    ELSE Own(entries(settings), reverseSyncFolderSettingsExclude)

\* the key is dropped by the root-level and folder-level reverse-exclude
\* lists taken together
ReverseDropped(file, folderPath, key) ==
    LET rootList == ListOf(file.settings)
        folderList == ListOf(OverrideOf(file, folderPath))
    IN  /\ \A p \in NegationsOf(rootList) \cup NegationsOf(folderList) : ~isMatch(key, p)
        /\ \E p \in ExclusionsOf(rootList) \cup ExclusionsOf(folderList) : isMatch(key, p)

\* the keys whose entry differs between two overrides
ChangedKeys(old, new) ==
    LET o == asSettings(old)
        n == asSettings(new)
    IN  {k \in Keys(o) \cup Keys(n) : Lookup(o, k) # Lookup(n, k)}

\* C11: every key a reverse pass adds to, changes in or deletes from the
\* folder's override is a top-level key of the artifact whose value is not
\* deep-equal to the expected value, or a key of expected absent from the
\* artifact; none begins with the internal prefix and none is dropped by
\* the reverse-exclude lists.
C11_OnlyNetUserChanges ==
    (AtRest /\ lastOp.op = "reverse" /\ lastOp.alone /\ lastOp.result) =>
        LET current == JsonOf(lastOp.folder)
            expected == lastOp.expected
            touched == ChangedKeys(lastOp.override, OverrideOf(doc, lastOp.folder))
                          \cup Keys(lastOp.patch)
        IN  \A k \in touched :
              /\ \/ Has(current, k) /\ ~deepEqual(Own(current, k), Lookup(expected, k))
                 \/ Has(expected, k) /\ ~Has(current, k)
              /\ ~startsWith(k, WORKSPACE_MANAGER_PREFIX)
              /\ ~ReverseDropped(doc, lastOp.folder, k)

C11_Witness ==
    /\ AtRest
    /\ lastOp.op = "reverse"
    /\ lastOp.alone
    /\ lastOp.result
    /\ ChangedKeys(lastOp.override, OverrideOf(doc, lastOp.folder)) # {}
    /\ \E k \in Keys(diff(lastOp.expected, JsonOf(lastOp.folder))) :
          ReverseDropped(doc, lastOp.folder, k)
    /\ \E k \in Keys(diff(lastOp.expected, JsonOf(lastOp.folder))) :
          startsWith(k, WORKSPACE_MANAGER_PREFIX)

\* the effective reverseSync.enabled of a folder: the folder's value if
\* set, otherwise the root's value if set, otherwise true
EffectiveReverseEnabled(file, folderPath) ==
    LET fs == asSettings(OverrideOf(file, folderPath))
        rs == workspaceSettings(load(file))
    IN  IF ~nullish(Lookup(fs, reverseSyncEnabled)) THEN Own(fs, reverseSyncEnabled)
        ELSE IF ~nullish(Lookup(rs, reverseSyncEnabled)) THEN Own(rs, reverseSyncEnabled)
        ELSE Bool(TRUE)

\* C12: a reverse pass for a folder whose effective reverseSync.enabled is
\* false writes nothing and returns false; one whose effective value is
\* true, the folder's true over the root's false included, is not skipped
\* as disabled.
C12_ReverseEnablement ==
    (AtRest /\ lastOp.op = "reverse" /\ lastOp.alone /\ lastOp.folder \in {"backend", "frontend"}) =>
        /\ EffectiveReverseEnabled(doc, lastOp.folder) = Bool(FALSE)
              => /\ lastOp.why = "disabled"
                 /\ lastOp.result = FALSE
                 /\ OverrideOf(doc, lastOp.folder) = lastOp.override
                 /\ syncFolderToWorkspace(doc, artifact, lastOp.folder).file = doc
        /\ EffectiveReverseEnabled(doc, lastOp.folder) = Bool(TRUE)
              => lastOp.why # "disabled"

C12_Witness ==
    /\ AtRest
    /\ lastOp.op = "reverse"
    /\ lastOp.alone
    /\ lastOp.why = "synced"
    /\ Lookup(asSettings(doc.settings), reverseSyncEnabled) = Bool(FALSE)
    /\ Lookup(asSettings(OverrideOf(doc, lastOp.folder)), reverseSyncEnabled) = Bool(TRUE)

ScenarioKeys == {"files.exclude", "editor.fontSize", "terminal.fontSize"}

\* C13: the patch of a reverse pass is the diff without the internal keys
\* and without the keys that some exclusion pattern of the root or the
\* folder list matches and no negation pattern of either list matches;
\* with root list ["files.exclude"] and folder list ["editor.*"], of the
\* changed keys files.exclude, editor.fontSize and terminal.fontSize only
\* terminal.fontSize is written to the override.
C13_ReverseExcludeConcatenation ==
    (AtRest /\ lastOp.op = "reverse" /\ lastOp.alone /\ lastOp.why \in {"synced", "no changes"}) =>
        LET d == diff(lastOp.expected, JsonOf(lastOp.folder))
            written == ChangedKeys(lastOp.override, OverrideOf(doc, lastOp.folder))
        IN  /\ Keys(lastOp.patch) =
                  {k \in Keys(d) : /\ ~startsWith(k, WORKSPACE_MANAGER_PREFIX)
                                   /\ ~ReverseDropped(doc, lastOp.folder, k)}
            /\ written \subseteq Keys(lastOp.patch)
            /\ (/\ ListOf(doc.settings) = Arr(<<Str("files.exclude")>>)
                /\ ListOf(OverrideOf(doc, lastOp.folder)) = Arr(<<Str("editor.*")>>)
                /\ ScenarioKeys \subseteq Keys(d))
               => /\ Keys(lastOp.patch) \cap ScenarioKeys = {"terminal.fontSize"}
                  /\ written \cap ScenarioKeys \subseteq {"terminal.fontSize"}
                  /\ Own(lastOp.patch, "terminal.fontSize") # Null
                        => Lookup(asSettings(OverrideOf(doc, lastOp.folder)),
                                  "terminal.fontSize")
                              = Own(lastOp.patch, "terminal.fontSize")

C13_Witness ==
    /\ AtRest
    /\ lastOp.op = "reverse"
    /\ lastOp.alone
    /\ lastOp.why = "synced"
    /\ ListOf(doc.settings) = Arr(<<Str("files.exclude")>>)
    /\ ListOf(OverrideOf(doc, lastOp.folder)) = Arr(<<Str("editor.*")>>)
    /\ ScenarioKeys \subseteq Keys(diff(lastOp.expected, JsonOf(lastOp.folder)))
    /\ Lookup(asSettings(OverrideOf(doc, lastOp.folder)), "terminal.fontSize") = Num(14)

-----------------------------------------------------------------------------
(* Properties of the switches and of the failure paths *)

SubFolders == {"backend", "frontend"}

\* the root settings hold sync.enabled: false
SyncDisabled(file) ==
    /\ loads(file)
    /\ Lookup(workspaceSettings(load(file)), syncEnabled) = Bool(FALSE)

\* the document without the root key sync.enabled
WithoutSyncEnabled(file) ==
    [file EXCEPT !.settings = Obj(Del(file.settings.m, syncEnabled))]

\* C21: with the root sync.enabled false, sync() writes no artifact for any
\* folder and returns 0, whatever the artifacts hold; a reverse pass does
\* what it does for the same document without the key, so it runs for a
\* folder with reverse sync enabled.
C21_ForwardDisabledReverseRuns ==
    SyncDisabled(doc) =>
        /\ sync(doc, artifact).count = 0
        /\ sync(doc, artifact).written = {}
        /\ sync(doc, artifact).files = artifact
        /\ sync(doc, artifact).threw = FALSE
        /\ lastOp.op = "forward"
              => (lastOp.count = 0 /\ lastOp.written = {} /\ lastOp.changed = {}
                    /\ ~lastOp.threw)
        /\ \A f \in SubFolders :
              LET rev == syncFolderToWorkspace(doc, artifact, f)
                  revOther == syncFolderToWorkspace(WithoutSyncEnabled(doc), artifact, f)
              IN  /\ rev.result = revOther.result
                  /\ rev.why = revOther.why
                  /\ rev.patch = revOther.patch
        /\ (lastOp.op = "reverse" /\ lastOp.alone /\ AtRest
               /\ lastOp.folder \in SubFolders
               /\ EffectiveReverseEnabled(doc, lastOp.folder) = Bool(TRUE))
              => lastOp.why # "disabled"

C21_Witness ==
    /\ SyncDisabled(doc)
    /\ AtRest
    /\ lastOp.op = "reverse"
    /\ lastOp.alone
    /\ lastOp.folder = "backend"
    /\ lastOp.result
    /\ lastOp.afterOp = "forward"
    /\ lastOp.afterWritten = {}
    /\ artifact["/ws/frontend"] = NoFile
    /\ OverrideOf(doc, "backend") # lastOp.override

\* C23: a write of the document, by a reverse pass or by the commands
\* that enable and disable auto-sync, replaces the top-level fields
\* folders and settings alone: every other top-level field of the document
\* is there afterwards with the same value, and no other field is added.
\* A document that is missing is not created.
C23_OnlyFoldersAndSettingsReplaced ==
    [][ /\ ~loads(doc) => doc' = doc
        /\ (loads(doc) /\ doc' # doc)
              => /\ loads(doc')
                 /\ DOMAIN doc' = DOMAIN doc \cup {"folders", "settings"}
                 /\ \A k \in DOMAIN doc \ {"folders", "settings"} : doc'[k] = doc[k] ]_vars

C23_Witness ==
    /\ AtRest
    /\ lastOp.op = "reverse"
    /\ lastOp.result
    /\ lastOp.afterOp = "enable"
    /\ OverrideOf(doc, "backend") # lastOp.override
    /\ Lookup(workspaceSettings(load(doc)), autoSyncEnabled) = Bool(TRUE)
    /\ DOMAIN doc = {"folders", "settings", "extensions", "launch"}
    /\ doc["extensions"] = Extensions
    /\ doc["launch"] = Launch

\* C24 (as claimed): a reverse pass whose write of the document fails ends
\* with an error at the caller of syncFolderToWorkspace, not with a return
\* value.
C24_PersistFailurePropagates ==
    (lastOp.op = "reverse" /\ lastOp.why = "save failed") => lastOp.threw

\* C25 (as claimed): without a document that can be loaded, sync() and
\* syncFolderToWorkspace() end with an error at their caller and write
\* nothing.
C25_ConfigNotFoundSurfaced ==
    ~loads(doc) =>
        /\ sync(doc, artifact).files = artifact
        /\ \A f \in SubFolders : syncFolderToWorkspace(doc, artifact, f).file = doc
        /\ lastOp.op = "forward" => lastOp.threw
        /\ lastOp.op = "reverse" => lastOp.threw

\* the content sync() means to write for a folder of the document
Wanted(file, folderPath) ==
    stringify(forwardCleaned(workspaceSettings(load(file)), FolderAt(file, folderPath)))

\* processing the folder fails when its path does not resolve or its
\* artifact cannot be written
CanFail(folderPath) ==
    \/ ~resolves(folderPath)
    \/ Fails("write", resolveFolderPath(folderPath))

\* C26: in a forward pass a folder whose processing fails keeps its
\* artifact and does not end the pass: every other non-root folder has the
\* content meant for it afterwards, sync() returns a count, and the count
\* is the number of artifacts that changed in the pass.
C26_FolderFailureDoesNotAbort ==
    (lastOp.op = "forward" /\ lastOp.alone /\ AtRest /\ syncStart(doc) = "loop") =>
        /\ lastOp.threw = FALSE
        /\ lastOp.count = Cardinality(lastOp.changed)
        /\ {resolveFolderPath(f) : f \in lastOp.written} = lastOp.changed
        /\ \A f \in SubFolders :
              IF CanFail(f)
              THEN \/ resolveFolderPath(f) \notin lastOp.changed
                   \/ artifact[resolveFolderPath(f)] = Wanted(doc, f)
              ELSE artifact[resolveFolderPath(f)] = Wanted(doc, f)
        /\ \A f \in SubFolders :
              (CanFail(f) /\ artifact[resolveFolderPath(f)] # Wanted(doc, f))
                 => resolveFolderPath(f) \notin lastOp.changed

C26_Witness ==
    /\ AtRest
    /\ lastOp.op = "forward"
    /\ lastOp.alone
    /\ lastOp.afterOp = "none"
    /\ faults = {<<"write", "/ws/backend">>}
    /\ syncStart(doc) = "loop"
    /\ artifact["/ws/backend"] # Wanted(doc, "backend")
    /\ artifact["/ws/frontend"] = Wanted(doc, "frontend")
    /\ lastOp.written = {"frontend"}
    /\ lastOp.changed = {"/ws/frontend"}
    /\ lastOp.count = 1

\* C27 (as claimed): syncFolderToWorkspace returns true exactly when the
\* call changed the folder's override in the document.
C27_TrueIffOverrideChanged ==
    (lastOp.op = "reverse" /\ lastOp.alone /\ AtRest) =>
        (lastOp.result <=> OverrideOf(doc, lastOp.folder) # lastOp.override)

\* the subfolder defaults of the document are a mapping that holds a key
\* of the internal namespace
HasInternalDefaults(file) ==
    /\ loads(file)
    /\ isPlainObject(Lookup(workspaceSettings(load(file)), syncSubFolderSettingsDefaults))
    /\ \E k \in Keys(Own(workspaceSettings(load(file)), syncSubFolderSettingsDefaults).m) :
          startsWith(k, WORKSPACE_MANAGER_PREFIX)

\* the document without the keys of the internal namespace inside its
\* subfolder defaults
WithoutInternalDefaults(file) ==
    LET defaults == Own(file.settings.m, syncSubFolderSettingsDefaults).m
    IN  [file EXCEPT !.settings =
            Obj(Put(file.settings.m, syncSubFolderSettingsDefaults,
                    Obj(SelectSeq(defaults,
                                  LAMBDA e : ~startsWith(e[1], WORKSPACE_MANAGER_PREFIX)))))]

\* C29: the keys of the internal namespace inside subFolderSettings.defaults
\* configure nothing: with and without them every folder has the same
\* reverse-sync enablement and the same reverse-exclude patterns, a forward
\* pass writes the same artifacts, and a reverse pass has the same result
\* and patch.
C29_InternalKeysInDefaultsIgnored ==
    HasInternalDefaults(doc) =>
        LET other == WithoutInternalDefaults(doc)
        IN  /\ sync(doc, artifact).files = sync(other, artifact).files
            /\ sync(doc, artifact).count = sync(other, artifact).count
            /\ \A f \in SubFolders :
                  LET rev == syncFolderToWorkspace(doc, artifact, f)
                      revOther == syncFolderToWorkspace(other, artifact, f)
                  IN  /\ reverseEnabled(load(doc), FolderAt(doc, f))
                            = reverseEnabled(load(other), FolderAt(other, f))
                      /\ reverseMatcherThrows(load(doc), FolderAt(doc, f))
                            = reverseMatcherThrows(load(other), FolderAt(other, f))
                      /\ ~reverseMatcherThrows(load(doc), FolderAt(doc, f))
                            => reversePatterns(load(doc), FolderAt(doc, f))
                                  = reversePatterns(load(other), FolderAt(other, f))
                      /\ forwardCleaned(workspaceSettings(load(doc)), FolderAt(doc, f))
                            = forwardCleaned(workspaceSettings(load(other)), FolderAt(other, f))
                      /\ TopLevelClean(forwardCleaned(workspaceSettings(load(doc)), FolderAt(doc, f)))
                      /\ rev.result = revOther.result
                      /\ rev.why = revOther.why
                      /\ rev.patch = revOther.patch

C29_Witness ==
    /\ AtRest
    /\ HasInternalDefaults(doc)
    /\ Lookup(workspaceSettings(load(doc)), syncSubFolderSettingsDefaults) = DefaultsWithInternalKeys
    /\ lastOp.op = "reverse"
    /\ lastOp.alone
    /\ lastOp.folder = "backend"
    /\ lastOp.result
    /\ Lookup(lastOp.patch, "editor.fontSize") = Num(14)
    /\ lastOp.afterOp = "forward"
    /\ lastOp.afterWritten = {"frontend"}
    /\ JsonOf("frontend") = << <<"editor.fontSize", Num(12)>>, <<"terminal.fontSize", Num(12)>>,
                               <<"files.exclude", Obj(<< <<".git", Bool(TRUE)>> >>)>> >>

\* C30 (as claimed): the expected settings a reverse pass computes for a
\* folder are deep-equal to the settings a forward pass serializes into
\* the folder's artifact.
C30_ExpectedIsForwardResult ==
    (loads(doc) /\ syncStart(doc) # "rejected" /\ ~expectedThrows(workspaceSettings(load(doc)))) =>
        \A f \in SubFolders :
            deepEqual(Obj(calculateExpectedSettings(workspaceSettings(load(doc)), FolderAt(doc, f))),
                      Obj(forwardCleaned(workspaceSettings(load(doc)), FolderAt(doc, f))))

-----------------------------------------------------------------------------
(* Properties of the coordinator's gate, timer and stops *)

\* the document is there and its root settings hold autoSync.enabled: true
AutoSyncExactlyTrue(file) ==
    /\ loads(file)
    /\ Lookup(workspaceSettings(load(file)), autoSyncEnabled) = Bool(TRUE)

\* the calls of a trigger function that await isAutoSyncEnabled(), and
\* those that have set their flag and called the engine
Checking(ts) == {i \in DOMAIN ts : ts[i].pc = "isAutoSyncEnabled"}

Passing(ts) ==
    {i \in DOMAIN ts : /\ ts[i].kind \in {"triggerForwardSync", "triggerReverseSync"}
                       /\ ts[i].pc \notin {"isAutoSyncEnabled", "finally"}}

\* C22: after a debounce expiry a pass is started only if the document's
\* root autoSync.enabled is exactly true when isAutoSyncEnabled() reads it;
\* when it is false, absent, another value, or the document cannot be
\* loaded, the call ends there: no pass is invoked, no in-progress flag is
\* set and nothing is written.
C22_AutoSyncGate ==
    [][ /\ Cardinality(Passing(tasks')) > Cardinality(Passing(tasks))
              => AutoSyncExactlyTrue(doc)
        /\ (/\ Cardinality(Checking(tasks')) < Cardinality(Checking(tasks))
            /\ ~AutoSyncExactlyTrue(doc))
              => /\ Len(tasks') = Len(tasks) - 1
                 /\ Cardinality(Passing(tasks')) = Cardinality(Passing(tasks))
                 /\ isForwardSyncing' = isForwardSyncing
                 /\ isReverseSyncing' = isReverseSyncing
                 /\ doc' = doc
                 /\ artifact' = artifact
                 /\ call'.out = FALSE ]_vars

C22_Witness ==
    /\ call.fn = "isAutoSyncEnabled"
    /\ call.out = FALSE
    /\ call.a = "triggerForwardSync"
    /\ loads(doc)
    /\ ~Has(workspaceSettings(load(doc)), autoSyncEnabled)
    /\ tasks = <<>>
    /\ ~isForwardSyncing
    /\ ~isReverseSyncing
    /\ lastOp.op = "forward"
    /\ lastOp.kind = "initialize"

\* C28 (as claimed): a pending timer of one event source is not cancelled
\* by an event of the other source: a timer set for a forward pass is not
\* replaced by one for a reverse pass, nor one for a reverse pass by one
\* for a forward pass.
C28_TimerPerEventSource ==
    [][ (debounceTimeout # Undefined /\ debounceTimeout' # Undefined)
            => debounceTimeout'.dir = debounceTimeout.dir ]_vars

\* the calls in flight of one kind
Calls(ts, kind) == {i \in DOMAIN ts : ts[i].kind = kind}

\* C32: a document notification accepted while a timer is pending starts
\* no pass: it leaves one pending timer, its own, so the window starts
\* again; a call of triggerForwardSync begins only when the pending timer,
\* the one of the last notification accepted, expires, and one expiry
\* begins one call.  A burst of notifications, each accepted within the
\* window of the one before, is therefore followed by one forward pass,
\* after the window of the last.
C32_BurstCoalesced ==
    [][ /\ (/\ Cardinality(Calls(tasks', "onChange")) < Cardinality(Calls(tasks, "onChange"))
            /\ ~isReverseSyncing)
              => /\ handled'.kind = "doc"
                 /\ handled'.outcome = "armed"
                 /\ debounceTimeout' = Timer("forward", "", handled'.by,
                                             handled'.duringFwd, handled'.duringRev)
                 /\ Len(tasks') = Len(tasks) - 1
                 /\ Cardinality(Calls(tasks', "triggerForwardSync"))
                        = Cardinality(Calls(tasks, "triggerForwardSync"))
                 /\ artifact' = artifact
                 /\ isForwardSyncing' = isForwardSyncing
        /\ Cardinality(Calls(tasks', "triggerForwardSync"))
               > Cardinality(Calls(tasks, "triggerForwardSync"))
              => /\ debounceTimeout # Undefined
                 /\ debounceTimeout.dir = "forward"
                 /\ debounceTimeout' = Undefined
                 /\ Len(tasks') = Len(tasks) + 1
                 /\ Cardinality(Calls(tasks', "triggerForwardSync"))
                        = Cardinality(Calls(tasks, "triggerForwardSync")) + 1
                 /\ tasks'[Len(tasks')].pc = "isAutoSyncEnabled"
                 /\ tasks'[Len(tasks')].by = debounceTimeout.by ]_vars

\* two saves of the user, both accepted, and no timer has expired so far:
\* one timer is pending and no call of a trigger function was ever begun
C32_Witness ==
    /\ edits = 2
    /\ loads(doc)
    /\ Lookup(workspaceSettings(load(doc)), "editor.fontSize") = Num(12)
    /\ Lookup(workspaceSettings(load(doc)), autoSyncEnabled) = Bool(TRUE)
    /\ call.fn = "none"
    /\ tasks = <<>>
    /\ events = {}
    /\ handled = [kind |-> "doc", by |-> "user", duringFwd |-> FALSE, duringRev |-> FALSE,
                  outcome |-> "armed"]
    /\ debounceTimeout = Timer("forward", "", "user", FALSE, FALSE)
    /\ artifact["/ws/backend"] = stringify(<< <<"editor.fontSize", Num(12)>> >>)

\* C33 (as claimed): an artifact notification accepted for a folder is
\* followed by a reverse pass for that folder also when a notification for
\* another folder is accepted within its window: the pending timer of a
\* reverse pass for one folder is not replaced by one for another folder.
C33_EveryFolderReverseSynced ==
    [][ (/\ debounceTimeout # Undefined /\ debounceTimeout.dir = "reverse"
         /\ debounceTimeout' # Undefined /\ debounceTimeout'.dir = "reverse")
            => debounceTimeout'.folder = debounceTimeout.folder ]_vars

\* C39 (as claimed): stopWatching() leaves no timer pending, and while the
\* watchers are stopped no timer is set and no call of a trigger function
\* goes on to its pass.
C39_NothingStartsWhileStopped ==
    [][ /\ (isWatching /\ ~isWatching') => debounceTimeout' = Undefined
        /\ (~isWatching /\ ~isWatching')
              => /\ debounceTimeout' = Undefined
                 /\ Cardinality(Passing(tasks')) <= Cardinality(Passing(tasks)) ]_vars

\* no notification undelivered, no timer pending, no call in flight, both
\* flags false
Quiet ==
    /\ events = {}
    /\ debounceTimeout = Undefined
    /\ tasks = << >>
    /\ ~isForwardSyncing
    /\ ~isReverseSyncing

\* C35: the coordinator comes to rest: from some point on no timer is
\* pending, both flags are false, no pass is in flight and no notification
\* is undelivered, so only finitely many passes run; this holds also when
\* the notification of a pass's own write is handled after the flag was
\* cleared.
C35_Quiescence == <>[]Quiet

\* C36: a flag that is set is cleared again, whether the pass succeeded or
\* failed.
C36_FlagsReset ==
    /\ isForwardSyncing ~> ~isForwardSyncing
    /\ isReverseSyncing ~> ~isReverseSyncing

\* both flags are clear after a reverse pass of triggerReverseSync that
\* failed: the user had deleted the document after the autoSync check
C36_Witness ==
    /\ ~isForwardSyncing
    /\ ~isReverseSyncing
    /\ tasks = << >>
    /\ doc = NoFile
    /\ call = [fn |-> "isAutoSyncEnabled", a |-> "triggerReverseSync", b |-> "backend",
               out |-> TRUE]
    /\ lastOp.op = "reverse"
    /\ lastOp.why = "load failed"

-----------------------------------------------------------------------------
(* Properties of forward resolution *)

\* the settings forward sync resolves for a folder of the document
Resolved(folderPath) == forwardCleaned(workspaceSettings(load(doc)), FolderAt(doc, folderPath))

\* the keys the root or the subfolder defaults could pass on to a folder,
\* and those of the folder's override
KeysOf(folderPath) ==
    Keys(workspaceSettings(load(doc)))
        \cup Keys(asSettings(Get(workspaceSettings(load(doc)), syncSubFolderSettingsDefaults)))
        \cup Keys(settingsOrEmpty(FolderAt(doc, folderPath)))

DoNotInherit(key) ==
    isExcluded(asPatterns(Get(workspaceSettings(load(doc)), syncRootSettingsExclude)), key)

\* for the keys of `keys` the root exclude list matches: in the resolved
\* settings iff the override sets them to a non-null value, and then with
\* the override's value
NotInheritedIn(keys, folderPath) ==
    LET override == settingsOrEmpty(FolderAt(doc, folderPath))
    IN  \A k \in {x \in keys : DoNotInherit(x)} :
            /\ Has(Resolved(folderPath), k)
                  <=> (Has(override, k) /\ Own(override, k) # Null)
            /\ Has(Resolved(folderPath), k) => Own(Resolved(folderPath), k) = Own(override, k)

\* C18 (as claimed): a top-level key matched by the root
\* sync.rootSettings.exclude patterns is in a folder's resolved settings
\* iff the folder's override sets it to a non-null value, and then has the
\* override's value.
C18_DoNotInherit ==
    \A f \in SubFolders : NotInheritedIn(KeysOf(f), f)

\* C18 (amended): the same for the keys that do not begin with the internal
\* prefix; and the artifact a forward pass writes holds the resolved
\* settings.
C18_DoNotInheritUserKeys ==
    \A f \in SubFolders :
        /\ NotInheritedIn({k \in KeysOf(f) : ~startsWith(k, WORKSPACE_MANAGER_PREFIX)}, f)
        /\ (AtRest /\ lastOp.op = "forward" /\ lastOp.alone /\ f \in lastOp.written)
              => JsonOf(f) = Resolved(f)

C18_Witness ==
    /\ AtRest
    /\ lastOp.op = "forward"
    /\ lastOp.alone
    /\ "backend" \in lastOp.written
    /\ DoNotInherit("editor.fontSize")
    /\ Lookup(workspaceSettings(load(doc)), "editor.fontSize") = Num(12)
    /\ Lookup(JsonOf("backend"), "editor.fontSize") = Num(14)
    /\ ~Has(JsonOf("frontend"), "editor.fontSize")

RootOnlyKeys ==
    {autoSyncEnabled, syncEnabled, syncRootSettingsExclude, syncSubFolderSettingsDefaults}

\* the document without the root-only keys its folders' settings hold
WithoutRootOnlyKeys(file) ==
    [file EXCEPT !.folders =
        [i \in DOMAIN file.folders |->
            IF ~isPlainObject(file.folders[i].settings) THEN file.folders[i]
            ELSE [file.folders[i] EXCEPT !.settings =
                     Obj(SelectSeq(file.folders[i].settings.m,
                                   LAMBDA e : e[1] \notin RootOnlyKeys))]]]

HasRootOnlyKey(file, folderPath) ==
    /\ isPlainObject(OverrideOf(file, folderPath))
    /\ Keys(OverrideOf(file, folderPath).m) \cap RootOnlyKeys # {}

\* C19: the root-only keys under a folder's settings change nothing: with
\* and without them a forward pass writes the same artifacts and returns
\* the same count, a reverse pass computes the same patch and result, and
\* isAutoSyncEnabled() answers the same.
C19_RootOnlyKeysIgnoredInFolders ==
    LET other == WithoutRootOnlyKeys(doc)
        fwd == sync(doc, artifact)
        fwdOther == sync(other, artifact)
        SameReverse(f) ==
            LET rev == syncFolderToWorkspace(doc, artifact, f)
                revOther == syncFolderToWorkspace(other, artifact, f)
            IN  /\ rev.patch = revOther.patch
                /\ rev.result = revOther.result
                /\ rev.why = revOther.why
    IN  other # doc =>
          /\ fwd.files = fwdOther.files
          /\ fwd.count = fwdOther.count
          /\ \A f \in SubFolders : SameReverse(f)
          /\ isAutoSyncEnabled(doc) = isAutoSyncEnabled(other)
          /\ (AtRest /\ lastOp.op = "forward" /\ lastOp.alone /\ "backend" \in lastOp.written)
                => JsonOf("backend") =
                      forwardCleaned(workspaceSettings(load(other)), FolderAt(other, "backend"))

C19_Witness ==
    /\ HasRootOnlyKey(doc, "backend")
    /\ AtRest
    /\ lastOp.op = "forward"
    /\ lastOp.alone
    /\ "backend" \in lastOp.written
    /\ Get(workspaceSettings(load(doc)), syncRootSettingsExclude) = Undefined
    /\ Lookup(workspaceSettings(load(doc)), "editor.fontSize") = Num(12)
    /\ JsonOf("backend") = << <<"editor.fontSize", Num(14)>> >>

\* C20: a forward pass never writes the artifact of the folder entry whose
\* path is the document's own location, and a reverse pass for it returns
\* false and leaves the document alone, whatever the artifact holds.
C20_RootFolderExcluded ==
    /\ artifact["/ws"] \in InitialArtifacts
    /\ lastOp.op = "forward" => ("." \notin lastOp.written /\ "/ws" \notin lastOp.changed)
    /\ sync(doc, artifact).files["/ws"] = artifact["/ws"]
    /\ (lastOp.op = "reverse" /\ lastOp.folder = ".")
          => /\ lastOp.result = FALSE
             /\ lastOp.why = "root folder"
             /\ lastOp.patch = <<>>
    /\ syncFolderToWorkspace(doc, artifact, ".").file = doc

C20_Witness ==
    /\ lastOp.op = "reverse"
    /\ lastOp.folder = "."
    /\ lastOp.afterOp = "forward"
    /\ lastOp.afterWritten # {}
    /\ artifact["/ws"] # NoFile
    /\ parse(artifact["/ws"]) # forwardCleaned(workspaceSettings(load(doc)), FolderAt(doc, "."))

-----------------------------------------------------------------------------
(* Properties of the passes as a whole *)

\* the settings with the keys of the internal namespace left out
WithoutInternal(settings) ==
    SelectSeq(settings, LAMBDA e : ~startsWith(e[1], WORKSPACE_MANAGER_PREFIX))

\* the resolved settings of a folder, stage by stage: the root settings
\* without internal keys, merged with the subfolder defaults, without the
\* keys the do-not-inherit list excludes, merged with the folder override,
\* and no internal key left at the end
ResolvedSettings(file, folderPath) ==
    LET root == workspaceSettings(load(file))
        stripped == WithoutInternal(root)
        withDefaults == merge(stripped, asSettings(Get(root, syncSubFolderSettingsDefaults)))
        filtered == filterSettings(asPatterns(Get(root, syncRootSettingsExclude)),
                                   withDefaults)
        override == settingsOrEmpty(FolderAt(file, folderPath))
    IN  WithoutInternal(merge(filtered, override))

\* C31: after a forward pass with forward sync enabled and no folder
\* failing, the artifact of every non-root folder is the serialization of
\* the folder's resolved settings, whatever it held before, and the
\* artifact of the root folder is as it was at start.
C31_ArtifactsAreResolvedSettings ==
    (AtRest /\ lastOp.op = "forward" /\ lastOp.alone /\ ~SyncDisabled(doc) /\ faults = {}) =>
        /\ \A f \in SubFolders :
              artifact[resolveFolderPath(f)] = stringify(ResolvedSettings(doc, f))
        /\ artifact["/ws"] \in InitialArtifacts

\* a forward pass has replaced a file somebody wrote in backend and created
\* the artifact of frontend, on a document with defaults, a do-not-inherit
\* list and an override with internal keys
C31_Witness ==
    /\ AtRest
    /\ lastOp.op = "forward"
    /\ lastOp.alone
    /\ lastOp.afterOp = "none"
    /\ lastOp.written = {"backend", "frontend"}
    /\ artifact["/ws"] # NoFile
    /\ Has(workspaceSettings(load(doc)), syncSubFolderSettingsDefaults)
    /\ Lookup(workspaceSettings(load(doc)), syncRootSettingsExclude)
          = Arr(<<Str("*"), Str("!editor.fontSize")>>)
    /\ Has(settingsOrEmpty(FolderAt(doc, "backend")), reverseSyncEnabled)
    /\ JsonOf("backend") = << <<"editor.tabSize", Num(4)>> >>
    /\ artifact["/ws/backend"].layout = "indent4"

\* the keys of a folder override that begin with the internal prefix
InternalKeys(override) ==
    {k \in Keys(asSettings(override)) : startsWith(k, WORKSPACE_MANAGER_PREFIX)}

\* C37: a reverse pass that has written the document has left every key of
\* the folder's override that begins with the internal prefix in the
\* override, with the value it had.
C37_InternalOverrideKept ==
    (AtRest /\ lastOp.op = "reverse" /\ lastOp.alone /\ lastOp.result) =>
        \A k \in InternalKeys(lastOp.override) :
            /\ isPlainObject(OverrideOf(doc, lastOp.folder))
            /\ Has(OverrideOf(doc, lastOp.folder).m, k)
            /\ Own(OverrideOf(doc, lastOp.folder).m, k) = Own(lastOp.override.m, k)

\* a reverse pass for backend has rewritten an override that holds
\* reverseSync.enabled: true, the subfolder defaults holding the same key
\* with false, so that the unfiltered diff names the key
C37_Witness ==
    /\ AtRest
    /\ lastOp.op = "reverse"
    /\ lastOp.alone
    /\ lastOp.result
    /\ lastOp.folder = "backend"
    /\ InternalKeys(lastOp.override) = {reverseSyncEnabled, "workspaceManager.custom"}
    /\ Lookup(asSettings(Get(workspaceSettings(load(doc)), syncSubFolderSettingsDefaults)),
              reverseSyncEnabled) = Bool(FALSE)
    /\ Has(diff(lastOp.expected, JsonOf("backend")), reverseSyncEnabled)
    /\ ~Has(lastOp.patch, reverseSyncEnabled)
    /\ OverrideOf(doc, "backend") # lastOp.override
    /\ Lookup(OverrideOf(doc, "backend").m, reverseSyncEnabled) = Bool(TRUE)

\* a call of the forward direction is about to write an artifact
ForwardWriting ==
    \E i \in DOMAIN tasks : tasks[i].kind \in ForwardKinds /\ tasks[i].pc = "write"

\* a call of the reverse direction is about to write the document
ReverseWriting ==
    \E i \in DOMAIN tasks : tasks[i].kind \in ReverseKinds /\ tasks[i].pc = "saveWrite"

\* C38: each direction writes its own target alone: a step that changes
\* the document is the write of a reverse pass, which then returns, and
\* leaves every artifact as it was, none written, created or deleted; a
\* step that changes an artifact is the write of a forward pass and leaves
\* the document as it was.
C38_OwnTargetOnly ==
    [][ /\ doc' # doc => (ReverseWriting /\ lastOp'.op = "reverse" /\ artifact' = artifact)
        /\ artifact' # artifact => (ForwardWriting /\ doc' = doc) ]_vars

\* a forward pass has written artifacts after a reverse pass for backend
\* had written the override editor.fontSize: 12 found in its settings.json
C38_Witness ==
    /\ lastOp.op = "forward"
    /\ "frontend" \in lastOp.written
    /\ lastOp.afterOp = "reverse"
    /\ lastOp.afterFolder = "backend"
    /\ Lookup(asSettings(OverrideOf(doc, "backend")), "editor.fontSize") = Num(12)
    /\ artifact["/ws/frontend"] # NoFile
-----------------------------------------------------------------------------
(* Properties of overlapping reverse passes *)

\* C34 (as claimed): a write of the document by a reverse pass for a folder
\* changes that folder's entry alone: the root settings and the entry of
\* every other folder are as in the document just before the write, so an
\* override written by another reverse pass stays.
C34_OnlyOwnOverrideReplaced ==
    [][ doc' # doc =>
            /\ ReverseWriting
            /\ lastOp'.op = "reverse"
            /\ load(doc').settings = load(doc).settings
            /\ Len(load(doc').folders) = Len(load(doc).folders)
            /\ \A j \in DOMAIN load(doc).folders :
                  load(doc).folders[j].path # lastOp'.folder
                      => load(doc').folders[j] = load(doc).folders[j] ]_vars

-----------------------------------------------------------------------------
(* Properties of SettingsMerger and PatternMatcher *)

\* the result holds no null at a position where the override holds one
RECURSIVE NoNullKept(_, _)
NoNullKept(result, override) ==
    \A k \in Keys(override) :
        /\ Own(override, k) = Null => ~(Has(result, k) /\ Own(result, k) = Null)
        /\ (isPlainObject(Own(override, k)) /\ Has(result, k)
              /\ isPlainObject(Own(result, k)))
              => NoNullKept(Own(result, k).m, Own(override, k).m)

\* C14 (as claimed): merge(A, O) holds no null at any position where O
\* holds a null, at the top level or inside mapping values, whatever A
\* holds at the enclosing path.
C14_NullDeletesAtAnyDepth ==
    call.fn = "merge" => NoNullKept(call.out, call.b)

\* C15 (as claimed): merge(expected, diff(expected, current)) has exactly
\* the keys of current, each with a value deep-equal to current's.
C15_MergeDiffDual ==
    call.fn = "diff" =>
        LET merged == merge(call.a, call.out)
        IN  /\ Keys(merged) = Keys(call.b)
            /\ \A k \in Keys(call.b) : deepEqual(Own(merged, k), Own(call.b, k))

\* C16: for a key whose override value is not null, merge yields the
\* override value whenever the base value or the override value is not a
\* mapping; two mappings are merged key by key.
C16_ReplaceUnlessBothMappings ==
    call.fn = "merge" =>
        \A k \in {x \in Keys(call.b) : Own(call.b, x) # Null} :
            LET value == Own(call.b, k)
            IN  IF isPlainObject(value) /\ Has(call.a, k) /\ isPlainObject(Own(call.a, k))
                THEN /\ Has(call.out, k)
                     /\ isPlainObject(Own(call.out, k))
                     /\ \A j \in Keys(Own(call.a, k).m) \ Keys(value.m) :
                           Lookup(Own(call.out, k).m, j) = Own(Own(call.a, k).m, j)
                     /\ \A j \in Keys(value.m) :
                           IF Own(value.m, j) = Null THEN ~Has(Own(call.out, k).m, j)
                           ELSE Has(Own(call.out, k).m, j)
                ELSE Lookup(call.out, k) = value

C16_Witness ==
    /\ call.fn = "merge"
    /\ Lookup(call.a, "a") = Arr(<<Num(1), Num(2)>>)
    /\ Lookup(call.b, "a") = Arr(<<Num(3)>>)
    /\ Lookup(call.out, "a") = Arr(<<Num(3)>>)

\* some pattern of the list that begins with "!" matches the key without it
NegationMatches(patterns, key) ==
    \E i \in DOMAIN patterns :
        /\ startsWith(patterns[i], "!")
        /\ isMatch(key, slice1(patterns[i]))

\* some pattern of the list that does not begin with "!" matches the key
ExclusionMatches(patterns, key) ==
    \E i \in DOMAIN patterns :
        /\ ~startsWith(patterns[i], "!")
        /\ isMatch(key, patterns[i])

Reordered(patterns) ==
    {[i \in DOMAIN patterns |-> patterns[f[i]]] : f \in Permutations(DOMAIN patterns)}

\* C17: isExcluded(key) is true iff no negation pattern matches the key and
\* some exclusion pattern matches it, in whatever order the patterns are
\* listed; filterSettings keeps exactly the keys that are not excluded,
\* with their values and in their order, and with an empty list keeps
\* everything.
C17_NegationWins ==
    /\ call.fn = "isExcluded" =>
          /\ call.out.excluded =
                (~NegationMatches(call.a, call.out.key) /\ ExclusionMatches(call.a, call.out.key))
          /\ \A q \in Reordered(call.a) : isExcluded(q, call.out.key) = call.out.excluded
    /\ call.fn = "filterSettings" =>
          /\ call.out = SelectSeq(call.b, LAMBDA e : \/ NegationMatches(call.a, e[1])
                                                     \/ ~ExclusionMatches(call.a, e[1]))
          /\ call.a = <<>> => call.out = call.b

C17_Witness ==
    /\ call.fn = "isExcluded"
    /\ call.a = <<"editor.*", "!editor.fontSize">>
    /\ call.out.key = "editor.fontSize"
    /\ call.out.excluded = FALSE

\* two trees with the same keys and, key by key, values that are the same
\* primitive, arrays of the same length with the same elements in order,
\* or mappings that are the same in this sense
RECURSIVE SameValue(_, _)
SameTree(a, b) ==
    /\ Keys(a) = Keys(b)
    /\ \A k \in Keys(a) : SameValue(Own(a, k), Own(b, k))

SameValue(v, w) ==
    IF isPlainObject(v) /\ isPlainObject(w) THEN SameTree(v.m, w.m)
    ELSE IF isArray(v) /\ isArray(w)
         THEN /\ Len(v.a) = Len(w.a)
              /\ \A i \in DOMAIN v.a : SameValue(v.a[i], w.a[i])
         ELSE v = w

\* C40 (as claimed): diff(expected, current) is the empty mapping exactly
\* when expected and current are deep-equal: the same keys, with deep-equal
\* values, arrays compared by length and order.
C40_DiffEmptyIffDeepEqual ==
    call.fn = "diff" => (call.out = EmptySettings <=> SameTree(call.a, call.b))
====
